---- MODULE Spec2Model ----
(***************************************************************************)
(* Model of the oapix code generator (package gen): the naming helpers,    *)
(* the schema-to-type mapping, the extraction of operations and models     *)
(* from a loaded OpenAPI document, and the client path expression.         *)
(*                                                                         *)
(* Go strings are modelled as sequences of one-character strings, so that  *)
(* case conversion, splitting and replacement are computed, not assumed.   *)
(* Go type names are sequences of tokens: a builtin chunk such as "int64", *)
(* "[]" or "map[string]" is one token, a Pascal-cased schema name is       *)
(* spelled out character by character.                                     *)
(***************************************************************************)
EXTENDS Integers, Sequences, FiniteSets, TLC

VARIABLES
    config,       \* Generator.config: the toggles of the run
    specFile,     \* what the file at config.SpecPath holds
    spec,         \* Generator.spec: None until LoadSpec succeeds
    operations,   \* result of the latest extractOperations call, None before it
    respOrder,    \* order in which that call ranged over each response map
    prevPass,     \* the extraction pass before the latest: document and result
    models,       \* result of the latest extractModels call, None before it
    env,          \* which steps of the run fail: rendering, formatting, writing
    outDir,       \* whether config.OutputDir exists
    files,        \* the files under config.OutputDir, None for a missing file
    lastErr,      \* error returned by the latest call, "" for nil
    cli,          \* the flags of the command line and how far main has got
    call,         \* naming helpers applied to a string, and the outcome
    bc,           \* a BaseClient and what its latest Request did
    ts            \* a ClientCredentialsTokenSource, its callers and the clock

vars == <<config, specFile, spec, operations, respOrder, prevPass, models,
          env, outDir, files, lastErr, cli, call, bc, ts>>

\* an optional value is a sequence of length 0 or 1 (a Go nil pointer is None)
None == <<>>
Some(v) == <<v>>

(***************************************************************************)
(* Characters (package unicode / strings on ASCII input)                   *)
(***************************************************************************)
LowerChars == <<"a","b","c","d","e","f","g","h","i","j","k","l","m",
                "n","o","p","q","r","s","t","u","v","w","x","y","z">>

UpperChars == <<"A","B","C","D","E","F","G","H","I","J","K","L","M",
                "N","O","P","Q","R","S","T","U","V","W","X","Y","Z">>

DigitChars == <<"0","1","2","3","4","5","6","7","8","9">>

\* byte order of the characters that occur in the documents of the model
AsciiOrder == <<" ", "%", "-", "/">> \o DigitChars \o UpperChars \o <<"_">>
              \o LowerChars \o <<"{", "}">>

Range(f) == { f[i] : i \in DOMAIN f }

LowerSet == Range(LowerChars)
UpperSet == Range(UpperChars)
DigitSet == Range(DigitChars)

IsLower(c) == c \in LowerSet
IsUpper(c) == c \in UpperSet
IsDigit(c) == c \in DigitSet
IsLetter(c) == IsLower(c) \/ IsUpper(c)

IndexIn(c, tbl) == CHOOSE i \in DOMAIN tbl : tbl[i] = c

UpperOf == [c \in LowerSet |-> UpperChars[IndexIn(c, LowerChars)]]
LowerOf == [c \in UpperSet |-> LowerChars[IndexIn(c, UpperChars)]]

ToUpperChar(c) == IF IsLower(c) THEN UpperOf[c] ELSE c
ToLowerChar(c) == IF IsUpper(c) THEN LowerOf[c] ELSE c

ToUpper(s) == [i \in DOMAIN s |-> ToUpperChar(s[i])]
ToLower(s) == [i \in DOMAIN s |-> ToLowerChar(s[i])]

OrdOf == [c \in Range(AsciiOrder) |-> IndexIn(c, AsciiOrder)]

Ord(c) == OrdOf[c]

\* s < t in Go's byte-wise string order
RECURSIVE StrLess(_, _)
StrLess(s, t) ==
    IF t = <<>> THEN FALSE
    ELSE IF s = <<>> THEN TRUE
    ELSE IF s[1] = t[1] THEN StrLess(Tail(s), Tail(t))
    ELSE Ord(s[1]) < Ord(t[1])

HasPrefix(s, p) == Len(s) >= Len(p) /\ SubSeq(s, 1, Len(p)) = p

\* strings.Count(s, c) for a one-character c
CountChar(s, c) == Cardinality({ i \in DOMAIN s : s[i] = c })

\* strings.Trim(s, c) for a one-character cutset
RECURSIVE TrimLeft(_, _)
TrimLeft(s, c) == IF s # <<>> /\ s[1] = c THEN TrimLeft(Tail(s), c) ELSE s

RECURSIVE TrimRight(_, _)
TrimRight(s, c) ==
    IF s # <<>> /\ s[Len(s)] = c THEN TrimRight(SubSeq(s, 1, Len(s) - 1), c) ELSE s

Trim(s, c) == TrimRight(TrimLeft(s, c), c)

\* unicode.IsSpace for the characters a string of the model can hold (those
\* up to U+00FF): tab, line feed, vertical tab, form feed, carriage return,
\* space, U+0085 (next line) and U+00A0 (no-break space)
WhiteSpace == {" ", "\t", "\n", "\r", "\f", "", "", " "}

\* strings.TrimSpace: leading and trailing white space is cut off
TrimSpace(s) ==
    LET kept == { i \in DOMAIN s : s[i] \notin WhiteSpace }
    IN IF kept = {} THEN <<>>
       ELSE SubSeq(s, CHOOSE i \in kept : \A j \in kept : i <= j,
                      CHOOSE i \in kept : \A j \in kept : j <= i)

\* strings.Split(s, sep) for a one-character sep: always at least one part
RECURSIVE SplitAcc(_, _, _, _)
SplitAcc(s, sep, cur, parts) ==
    IF s = <<>> THEN Append(parts, cur)
    ELSE IF s[1] = sep THEN SplitAcc(Tail(s), sep, <<>>, Append(parts, cur))
    ELSE SplitAcc(Tail(s), sep, Append(cur, s[1]), parts)

Split(s, sep) == SplitAcc(s, sep, <<>>, <<>>)

\* strings.ReplaceAll(s, old, new) for a non-empty old
RECURSIVE ReplaceAll(_, _, _)
ReplaceAll(s, old, new) ==
    IF Len(s) < Len(old) THEN s
    ELSE IF HasPrefix(s, old)
         THEN new \o ReplaceAll(SubSeq(s, Len(old) + 1, Len(s)), old, new)
         ELSE <<s[1]>> \o ReplaceAll(Tail(s), old, new)

(***************************************************************************)
(* toPascalCase                                                            *)
(***************************************************************************)
Acronyms == { <<"I","D">>, <<"U","R","L">>, <<"A","P","I">>,
              <<"H","T","T","P">>, <<"H","T","T","P","S">>,
              <<"J","S","O","N">>, <<"X","M","L">> }

Flush(cur, words) == IF cur # <<>> THEN Append(words, cur) ELSE words

\* the word-splitting loop: i is the 1-based position in s
RECURSIVE PascalWords(_, _, _, _)
PascalWords(s, i, cur, words) ==
    IF i > Len(s) THEN Flush(cur, words)
    ELSE
      LET r == s[i]
          prevIsLower == i > 1 /\ IsLower(s[i-1])
          nextIsLower == i + 1 <= Len(s) /\ IsLower(s[i+1])
          brk  == i > 1 /\ IsUpper(r) /\ (prevIsLower \/ nextIsLower)
          w1   == IF brk THEN Flush(cur, words) ELSE words
          c1   == IF brk THEN <<>> ELSE cur
      IN IF IsLetter(r) \/ IsDigit(r)
         THEN PascalWords(s, i + 1, Append(c1, r), w1)
         ELSE PascalWords(s, i + 1, <<>>, Flush(c1, w1))

\* index of the first letter of word, 0 when it has none
FirstLetter(word) ==
    IF \E j \in DOMAIN word : IsLetter(word[j])
    THEN CHOOSE j \in DOMAIN word :
            IsLetter(word[j]) /\ \A k \in 1..(j-1) : ~IsLetter(word[k])
    ELSE 0

Capitalize(word) == <<ToUpperChar(word[1])>> \o ToLower(Tail(word))

PascalWord(word) ==
    IF ToUpper(word) \in Acronyms THEN ToUpper(word)
    ELSE IF IsDigit(word[1])
         THEN LET ls == FirstLetter(word)
              IN IF ls > 1
                 THEN SubSeq(word, 1, ls - 1) \o Capitalize(SubSeq(word, ls, Len(word)))
                 ELSE word
         ELSE Capitalize(word)

RECURSIVE ConcatMap(_, _)
ConcatMap(F(_), ws) ==
    IF ws = <<>> THEN <<>> ELSE F(Head(ws)) \o ConcatMap(F, Tail(ws))

toPascalCase(s0) ==
    LET s == TrimSpace(s0)
    IN IF s = <<>> THEN <<>>
       ELSE ConcatMap(PascalWord, PascalWords(s, 1, <<>>, <<>>))

(***************************************************************************)
(* toCamelCase, toSnakeCase, toKebabCase, pluralize, singularize           *)
(***************************************************************************)
\* the outcome of a call: a returned string, or a runtime panic
Ok(value) == [ok |-> TRUE, value |-> value]
Panic == [ok |-> FALSE, value |-> <<>>]

HasSuffix(s, suffix) ==
    Len(s) >= Len(suffix) /\ SubSeq(s, Len(s) - Len(suffix) + 1, Len(s)) = suffix

\* position of the first lower-case letter of s, 0 when there is none
FirstLower(s) ==
    IF \E i \in DOMAIN s : IsLower(s[i])
    THEN CHOOSE i \in DOMAIN s : IsLower(s[i]) /\ \A j \in 1..(i-1) : ~IsLower(s[j])
    ELSE 0

\* variant: only the first letter is lower-cased
toCamelCase_FirstLetterOnly(s) ==
    LET pascal == toPascalCase(s)
    IN IF pascal = <<>> THEN <<>>
       ELSE <<ToLowerChar(pascal[1])>> \o Tail(pascal)

toCamelCase(s) ==
    LET pascal == toPascalCase(s)
        i == FirstLower(pascal)
    IN IF pascal = <<>> THEN <<>>
       ELSE IF i = 0 THEN ToLower(pascal)
       ELSE IF i = 1 THEN pascal
       ELSE IF i > 2
            THEN ToLower(SubSeq(pascal, 1, i - 2)) \o SubSeq(pascal, i - 1, Len(pascal))
       ELSE ToLower(SubSeq(pascal, 1, 1)) \o SubSeq(pascal, 2, Len(pascal))

\* the loop of toSnakeCase: an underscore before an upper-case letter that
\* is followed or preceded by a lower-case one, every letter lower-cased
Underscored(s) ==
    LET F[i \in 0..Len(s)] ==
          IF i = 0 THEN <<>>
          ELSE F[i-1]
               \o (IF i > 1 /\ IsUpper(s[i])
                      /\ ((i < Len(s) /\ IsLower(s[i+1])) \/ IsLower(s[i-1]))
                   THEN <<"_">> ELSE <<>>)
               \o <<ToLowerChar(s[i])>>
    IN F[Len(s)]

\* regexp [^a-z0-9]+ replaced by "_": a run of other characters becomes one
SquashOthers(s) ==
    LET Other(c) == ~(IsLower(c) \/ IsDigit(c))
        F[i \in 0..Len(s)] ==
          IF i = 0 THEN <<>>
          ELSE IF ~Other(s[i]) THEN Append(F[i-1], s[i])
          ELSE IF i > 1 /\ Other(s[i-1]) THEN F[i-1]
          ELSE Append(F[i-1], "_")
    IN F[Len(s)]

toSnakeCase(s) == IF s = <<>> THEN <<>> ELSE SquashOthers(Underscored(s))

toKebabCase(s) == ReplaceAll(toSnakeCase(s), <<"_">>, <<"-">>)

isVowel(b) == b \in {"a", "e", "i", "o", "u", "A", "E", "I", "O", "U"}

\* the irregular table of pluralize; singularize holds the same pairs reversed
Irregular ==
    <<<<<<"c","h","i","l","d">>, <<"c","h","i","l","d","r","e","n">>>>,
      <<<<"p","e","r","s","o","n">>, <<"p","e","o","p","l","e">>>>,
      <<<<"m","a","n">>, <<"m","e","n">>>>,
      <<<<"w","o","m","a","n">>, <<"w","o","m","e","n">>>>,
      <<<<"f","o","o","t">>, <<"f","e","e","t">>>>,
      <<<<"t","o","o","t","h">>, <<"t","e","e","t","h">>>>,
      <<<<"g","o","o","s","e">>, <<"g","e","e","s","e">>>>,
      <<<<"m","o","u","s","e">>, <<"m","i","c","e">>>>>>

\* the entry of a table (a sequence of pairs) for a key, None when absent
Lookup(table, key) ==
    IF \E i \in DOMAIN table : table[i][1] = key
    THEN Some((CHOOSE entry \in Range(table) : entry[1] = key)[2])
    ELSE None

Reversed(table) == [i \in DOMAIN table |-> <<table[i][2], table[i][1]>>]

\* the table entry with the capitalization of the first letter of s
LikeFirst(s, word) ==
    IF IsUpper(s[1]) THEN ToUpper(SubSeq(word, 1, 1)) \o SubSeq(word, 2, Len(word))
    ELSE word

EsStem(stem) ==
    \/ HasSuffix(stem, <<"s">>) \/ HasSuffix(stem, <<"x">>) \/ HasSuffix(stem, <<"z">>)
    \/ HasSuffix(stem, <<"c","h">>) \/ HasSuffix(stem, <<"s","h">>)

\* variant: every word that is not irregular just gets an "s"
pluralize_AppendS(s) ==
    IF s = <<>> THEN Ok(<<>>)
    ELSE IF Lookup(Irregular, ToLower(s)) # None
    THEN Ok(LikeFirst(s, Lookup(Irregular, ToLower(s))[1]))
    ELSE Ok(s \o <<"s">>)

\* s[len(s)-2] of a one-character string is out of range
pluralize(s) ==
    IF s = <<>> THEN Ok(<<>>)
    ELSE IF Lookup(Irregular, ToLower(s)) # None
    THEN Ok(LikeFirst(s, Lookup(Irregular, ToLower(s))[1]))
    ELSE IF HasSuffix(s, <<"y">>) /\ Len(s) < 2 THEN Panic
    ELSE IF HasSuffix(s, <<"y">>) /\ ~isVowel(s[Len(s) - 1])
    THEN Ok(SubSeq(s, 1, Len(s) - 1) \o <<"i","e","s">>)
    ELSE IF EsStem(s) THEN Ok(s \o <<"e","s">>)
    ELSE Ok(s \o <<"s">>)

singularize(s) ==
    IF s = <<>> THEN <<>>
    ELSE IF Lookup(Reversed(Irregular), ToLower(s)) # None
    THEN LikeFirst(s, Lookup(Reversed(Irregular), ToLower(s))[1])
    ELSE IF HasSuffix(s, <<"i","e","s">>) THEN SubSeq(s, 1, Len(s) - 3) \o <<"y">>
    ELSE IF HasSuffix(s, <<"e","s">>) /\ EsStem(SubSeq(s, 1, Len(s) - 2))
    THEN SubSeq(s, 1, Len(s) - 2)
    ELSE IF HasSuffix(s, <<"s">>) /\ ~HasSuffix(s, <<"s","s">>)
    THEN SubSeq(s, 1, Len(s) - 1)
    ELSE s

(***************************************************************************)
(* generateOperationName                                                   *)
(***************************************************************************)
\* position of the first "}" of s at or after i, 0 when there is none
NextClose(s, i) ==
    IF \E j \in i..Len(s) : s[j] = "}"
    THEN CHOOSE j \in i..Len(s) :
            s[j] = "}" /\ \A k \in i..(j-1) : s[k] # "}"
    ELSE 0

\* regexp.MustCompile(`\{[^}]+\}`).ReplaceAllString(path, "")
RECURSIVE RemovePathParams(_, _)
RemovePathParams(s, i) ==
    IF i > Len(s) THEN <<>>
    ELSE LET j == NextClose(s, i + 1)
         IN IF s[i] = "{" /\ j >= i + 2
            THEN RemovePathParams(s, j + 1)
            ELSE <<s[i]>> \o RemovePathParams(s, i + 1)

PascalPart(part) == IF part # <<>> THEN toPascalCase(part) ELSE <<>>

\* variant: the path parameters are not removed before splitting
generateOperationName_KeepParams(method, path) ==
    toPascalCase(method) \o ConcatMap(PascalPart, Split(Trim(path, "/"), "/"))

generateOperationName(method, path) ==
    LET cleanPath == RemovePathParams(path, 1)
        parts     == Split(Trim(cleanPath, "/"), "/")
    IN toPascalCase(method) \o ConcatMap(PascalPart, parts)

(***************************************************************************)
(* Nondeterministic iteration order of a Go map                            *)
(***************************************************************************)
\* every order in which `range` may visit the keys S of a map
RECURSIVE Perms(_)
Perms(S) ==
    IF S = {} THEN { <<>> }
    ELSE UNION { { <<x>> \o p : p \in Perms(S \ {x}) } : x \in S }

\* all sequences that take their k-th element from sets[k]
RECURSIVE SeqProduct(_)
SeqProduct(sets) ==
    IF sets = <<>> THEN { <<>> }
    ELSE { <<a>> \o rest : a \in Head(sets), rest \in SeqProduct(Tail(sets)) }

(***************************************************************************)
(* The loaded document (openapi3.T), read-only to the generator            *)
(*   schema    : [type, format, items, addl, addlHas, enum, properties,    *)
(*                required, nullable]                                      *)
(*   schemaRef : [ref, value]                                              *)
(*   parameter : [value, name, in, required, schema]                       *)
(*   response  : [value, json, wild]  (the schema under application/json   *)
(*                and under "*/*", None when absent)                       *)
(*   operation : [operationId, parameters, requestBody, responses]         *)
(*   pathItem  : [path, ops] with ops a function from method to operation  *)
(*   document  : [paths, schemas]                                          *)
(***************************************************************************)
EmptyMap == <<>>

Schema(type, format) ==
    [type |-> type, format |-> format, items |-> None, addl |-> None,
     addlHas |-> None, enum |-> <<>>, properties |-> EmptyMap,
     required |-> <<>>, nullable |-> FALSE]

\* "#/components/schemas/"
RefPrefix == <<"#","/","c","o","m","p","o","n","e","n","t","s","/",
               "s","c","h","e","m","a","s","/">>

\* a SchemaRef holding an inline schema, and one holding a resolved $ref
Inline(schema) == [ref |-> <<>>, value |-> Some(schema)]
RefTo(name, schema) ==
    [ref |-> RefPrefix \o name, value |-> Some(schema)]

(***************************************************************************)
(* schemaToGoType / schemaRefToGoType                                      *)
(***************************************************************************)
\* getSchemaRef: always the empty string
getSchemaRef(schema) == <<>>

LastPart(ref) == LET parts == Split(ref, "/") IN parts[Len(parts)]

RECURSIVE schemaToGoType(_)
RECURSIVE schemaRefToGoType(_)

schemaToGoType(schemaOpt) ==
    IF schemaOpt = None THEN <<"interface{}">>
    ELSE
      LET schema == schemaOpt[1]
          typeStr == IF schema.type = None THEN "" ELSE schema.type[1]
      IN IF getSchemaRef(schema) # <<>> THEN toPascalCase(LastPart(getSchemaRef(schema)))
         ELSE IF typeStr = "array"
              THEN IF schema.items # None
                   THEN <<"[]">> \o schemaRefToGoType(schema.items)
                   ELSE <<"[]", "interface{}">>
         ELSE IF typeStr = "string"
              THEN IF schema.format = "date-time" THEN <<"time.Time">>
                   ELSE IF schema.format = "date" THEN <<"time.Time">>
                   ELSE <<"string">>
         ELSE IF typeStr = "integer"
              THEN IF schema.format = "int32" THEN <<"int32">> ELSE <<"int64">>
         ELSE IF typeStr = "number"
              THEN IF schema.format = "float" THEN <<"float32">> ELSE <<"float64">>
         ELSE IF typeStr = "boolean" THEN <<"bool">>
         ELSE IF typeStr = "object"
              THEN IF schema.addl # None
                   THEN IF schema.addl[1].value # None
                        THEN <<"map[string]">> \o schemaToGoType(schema.addl[1].value)
                        ELSE <<"map[string]">> \o schemaRefToGoType(schema.addl)
                   ELSE IF schema.addlHas # None /\ schema.addlHas[1]
                        THEN <<"map[string]", "interface{}">>
                        ELSE <<"interface{}">>
         ELSE <<"interface{}">>

schemaRefToGoType(refOpt) ==
    IF refOpt = None THEN <<"interface{}">>
    ELSE LET schemaRef == refOpt[1]
         IN IF schemaRef.ref # <<>> THEN toPascalCase(LastPart(schemaRef.ref))
            ELSE IF schemaRef.value # None THEN schemaToGoType(schemaRef.value)
            ELSE <<"interface{}">>

(***************************************************************************)
(* extractModels / schemaToModel                                           *)
(***************************************************************************)
\* an element of schema.Enum: a string, or a value of another type
EnumString(str) == [isString |-> TRUE, str |-> str]
EnumOther == [isString |-> FALSE, str |-> <<>>]

RECURSIVE EnumStrings(_)
EnumStrings(enum) ==
    IF enum = <<>> THEN <<>>
    ELSE (IF Head(enum).isString THEN <<Head(enum).str>> ELSE <<>>)
         \o EnumStrings(Tail(enum))

InSeq(x, seq) == \E i \in DOMAIN seq : seq[i] = x

\* variant: every field is marked omitempty
RECURSIVE FieldLoop_OmitAlways(_, _)
FieldLoop_OmitAlways(schema, order) ==
    IF order = <<>> THEN <<>>
    ELSE LET propName == Head(order)
             propRef  == schema.properties[propName]
             field ==
               [Name |-> toPascalCase(propName),
                JSONName |-> propName,
                Type |-> schemaRefToGoType(Some(propRef)),
                Required |-> InSeq(propName, schema.required),
                Nullable |-> IF propRef.value # None
                             THEN propRef.value[1].nullable ELSE FALSE,
                OmitEmpty |-> TRUE]
         IN (IF propRef.value # None THEN <<field>> ELSE <<>>)
            \o FieldLoop_OmitAlways(schema, Tail(order))

\* the loop over schema.Properties, visiting the property names in `order`
RECURSIVE FieldLoop(_, _)
FieldLoop(schema, order) ==
    IF order = <<>> THEN <<>>
    ELSE LET propName == Head(order)
             propRef  == schema.properties[propName]
             field ==
               [Name |-> toPascalCase(propName),
                JSONName |-> propName,
                Type |-> schemaRefToGoType(Some(propRef)),
                Required |-> InSeq(propName, schema.required),
                Nullable |-> IF propRef.value # None
                             THEN propRef.value[1].nullable ELSE FALSE,
                OmitEmpty |-> ~InSeq(propName, schema.required)]
         IN (IF propRef.value # None THEN <<field>> ELSE <<>>)
            \o FieldLoop(schema, Tail(order))

\* variant: the enum branch does not return before the object branch
schemaToModel_EnumWithFields(name, schema, propOrder) ==
    [Name |-> toPascalCase(name),
     Fields |-> IF schema.type = Some("object")
                THEN FieldLoop(schema, propOrder) ELSE <<>>,
     IsEnum |-> Len(schema.enum) > 0,
     EnumValues |-> EnumStrings(schema.enum)]

schemaToModel(name, schema, propOrder) ==
    IF Len(schema.enum) > 0
    THEN [Name |-> toPascalCase(name), Fields |-> <<>>, IsEnum |-> TRUE,
          EnumValues |-> EnumStrings(schema.enum)]
    ELSE [Name |-> toPascalCase(name),
          Fields |-> IF schema.type = Some("object")
                     THEN FieldLoop(schema, propOrder) ELSE <<>>,
          IsEnum |-> FALSE, EnumValues |-> <<>>]

\* the loop over Components.Schemas: nameOrder is the order of the schema names,
\* propOrders[k] the order of the properties of the k-th of them
RECURSIVE extractModels(_, _, _)
extractModels(doc, nameOrder, propOrders) ==
    IF nameOrder = <<>> THEN <<>>
    ELSE LET name == Head(nameOrder)
             schemaRef == doc.schemas[name]
         IN (IF schemaRef.value # None
             THEN <<schemaToModel(name, schemaRef.value[1], Head(propOrders))>>
             ELSE <<>>)
            \o extractModels(doc, Tail(nameOrder), Tail(propOrders))

PropNames(schemaRef) ==
    IF schemaRef.value # None THEN DOMAIN schemaRef.value[1].properties ELSE {}

\* the iteration orders the runtime may choose during one extractModels call
ModelOrderings(doc) ==
    UNION { { [names |-> names, props |-> props] :
                props \in SeqProduct([k \in 1..Len(names) |->
                                         Perms(PropNames(doc.schemas[names[k]]))]) } :
            names \in Perms(DOMAIN doc.schemas) }

(***************************************************************************)
(* The client template: method signature and path expression               *)
(***************************************************************************)
RECURSIVE filterParamsByIn(_, _)
filterParamsByIn(params, in) ==
    IF params = <<>> THEN <<>>
    ELSE (IF Head(params).In = in THEN <<Head(params)>> ELSE <<>>)
         \o filterParamsByIn(Tail(params), in)

hasQueryParams(params) == \E i \in DOMAIN params : params[i].In = "query"
hasHeaderParams(params) == \E i \in DOMAIN params : params[i].In = "header"

RECURSIVE buildPath(_, _)
buildPath(path, params) ==
    IF params = <<>> THEN path
    ELSE LET param == Head(params)
             placeholder == <<"{">> \o param.Name \o <<"}">>
         IN buildPath(IF param.In = "path"
                      THEN ReplaceAll(path, placeholder, <<"%","s">>)
                      ELSE path,
                      Tail(params))

\* the argument list of the method, each argument a name and a type
buildMethodSignature(op) ==
    LET pathParams == filterParamsByIn(op.Parameters, "path")
    IN <<[name |-> <<"c","t","x">>, type |-> <<"context.Context">>]>>
       \o [k \in 1..Len(pathParams) |->
             [name |-> pathParams[k].Name, type |-> pathParams[k].Type]]
       \o (IF op.RequestBody # None
           THEN <<[name |-> <<"r","e","q">>, type |-> op.RequestBody[1].Type]>>
           ELSE <<>>)
       \o (IF hasQueryParams(op.Parameters) \/ hasHeaderParams(op.Parameters)
           THEN <<[name |-> <<"p","a","r","a","m","s">>,
                   type |-> <<"*">> \o op.Name \o <<"Params">>]>>
           ELSE <<>>)

\* what the template emits for one operation: the signature, the result type
\* and `path := fmt.Sprintf(PathFormat, PathArgs...)`
ClientMethod(op) ==
    LET pathParams == filterParamsByIn(op.Parameters, "path")
    IN [Name |-> op.Name,
        Signature |-> buildMethodSignature(op),
        Result |-> IF op.SuccessResponse # None
                   THEN op.SuccessResponse[1].Type ELSE <<>>,
        Method |-> op.Method,
        PathFormat |-> buildPath(op.Path, op.Parameters),
        PathArgs |-> [k \in 1..Len(pathParams) |-> pathParams[k].Name]]

RenderClient(ops) == [k \in 1..Len(ops) |-> ClientMethod(ops[k])]

\* the operands fmt.Sprintf has no verb for, as it lists them:
\* string=a, string=b
RECURSIVE ExtraOperands(_)
ExtraOperands(args) ==
    IF args = <<>> THEN <<>>
    ELSE <<"string=">> \o Head(args)
         \o (IF Tail(args) = <<>> THEN <<>> ELSE <<", ">> \o ExtraOperands(Tail(args)))

\* fmt.Sprintf for string operands and a format whose only verb is %s
RECURSIVE Sprintf(_, _)
Sprintf(format, args) ==
    IF Len(format) >= 2 /\ format[1] = "%" /\ format[2] = "s"
    THEN (IF args # <<>> THEN Head(args) ELSE <<"%!s(MISSING)">>)
         \o Sprintf(SubSeq(format, 3, Len(format)),
                    IF args # <<>> THEN Tail(args) ELSE <<>>)
    ELSE IF format # <<>> THEN <<format[1]>> \o Sprintf(Tail(format), args)
    ELSE IF args # <<>> THEN <<"%!(EXTRA ">> \o ExtraOperands(args) \o <<")">>
    ELSE <<>>


(***************************************************************************)
(* Documents of the model                                                  *)
(***************************************************************************)
MethodOrder == <<"GET", "POST", "PUT", "DELETE", "PATCH", "HEAD", "OPTIONS">>

MethodName ==
    [GET |-> <<"G","E","T">>, POST |-> <<"P","O","S","T">>,
     PUT |-> <<"P","U","T">>, DELETE |-> <<"D","E","L","E","T","E">>,
     PATCH |-> <<"P","A","T","C","H">>, HEAD |-> <<"H","E","A","D">>,
     OPTIONS |-> <<"O","P","T","I","O","N","S">>]

W_users == <<"u","s","e","r","s">>
W_id == <<"i","d">>
W_packageKey == <<"p","a","c","k","a","g","e","K","e","y">>
W_assetId == <<"a","s","s","e","t","I","d">>
W_limit == <<"l","i","m","i","t">>

P_users == <<"/">> \o W_users
P_userById == P_users \o <<"/","{">> \o W_id \o <<"}">>
P_v1users == <<"/","v","1">> \o P_users
P_v2users == <<"/","v","2">> \o P_users
P_apiusers == <<"/","a","p","i">> \o P_users
P_special == <<"/","s","p","e","c","i","a","l","/","c","a","s","e">>
P_users2 == P_users \o <<"/","2">>
P_links == <<"/","p","a","c","k","a","g","e","s","/","{">> \o W_packageKey
           \o <<"}","/","l","i","n","k","s","/","{">> \o W_id \o <<"}">>
P_assets == <<"/","a","s","s","e","t","s","/","{">> \o W_assetId \o <<"}">>
P_root == <<"/">>
P_userPosts == P_userById \o <<"/","p","o","s","t","s">>

Id_createUser == <<"c","r","e","a","t","e","U","s","e","r">>
Id_getUsers == <<"g","e","t","U","s","e","r","s">>
Id_get_users_2 == <<"g","e","t","_","u","s","e","r","s","_","2">>
Id_getLink == <<"g","e","t","L","i","n","k">>
Id_createAsset == <<"c","r","e","a","t","e","A","s","s","e","t">>

N_Asset == <<"A","s","s","e","t">>
N_Error == <<"E","r","r","o","r">>

C200 == <<"2","0","0">>
C201 == <<"2","0","1">>
C204 == <<"2","0","4">>
C301 == <<"3","0","1">>
C400 == <<"4","0","0">>
C403 == <<"4","0","3">>
C500 == <<"5","0","0">>
Cdefault == <<"d","e","f","a","u","l","t">>

StringSchema == Schema(Some("string"), "")
ObjectSchema == Schema(Some("object"), "")

\* a response without content, with an application/json schema, with a */* schema
NoContent == [value |-> TRUE, json |-> None, wild |-> None]
JsonBody(ref) == [value |-> TRUE, json |-> Some(ref), wild |-> None]
WildBody(ref) == [value |-> TRUE, json |-> None, wild |-> Some(ref)]

PathParam(name) ==
    [value |-> TRUE, name |-> name, in |-> "path", required |-> TRUE,
     schema |-> Some(Inline(StringSchema))]
QueryParam(name) ==
    [value |-> TRUE, name |-> name, in |-> "query", required |-> FALSE,
     schema |-> Some(Inline(StringSchema))]

Op(operationId, parameters, requestBody, responses) ==
    [operationId |-> operationId, parameters |-> parameters,
     requestBody |-> requestBody, responses |-> responses]

\* an operation with the single response '200' and no content
PlainOp(operationId) == Op(operationId, <<>>, None, (C200 :> NoContent))

AssetBody == [json |-> Some(RefTo(N_Asset, ObjectSchema)), required |-> TRUE]

\* all the responses an operation of the model may declare
ResponsePool ==
    (C200 :> JsonBody(RefTo(N_Asset, ObjectSchema)))
    @@ (C201 :> JsonBody(RefTo(N_Asset, ObjectSchema)))
    @@ (C204 :> NoContent)
    @@ (C301 :> NoContent)
    @@ (C400 :> WildBody(RefTo(N_Error, ObjectSchema)))
    @@ (C403 :> NoContent)
    @@ (C500 :> WildBody(RefTo(N_Error, ObjectSchema)))
    @@ (Cdefault :> JsonBody(RefTo(N_Error, ObjectSchema)))

Restrict(f, S) == [x \in S |-> f[x]]

\* the response sets of the asset operation: every choice of at most
\* MaxResponses responses from the pool
MaxResponses == 2

ResponseSets ==
    { S \in SUBSET (DOMAIN ResponsePool) : Cardinality(S) \in 1..MaxResponses }

W_createdDate == <<"c","r","e","a","t","e","d","D","a","t","e">>
W_score == <<"s","c","o","r","e">>
W_lastModifiedDATE == <<"l","a","s","t","M","o","d","i","f","i","e","d","D","A","T","E">>
W_updatedDate == <<"u","p","d","a","t","e","d","D","a","t","e">>
W_userDateCreated == <<"u","s","e","r","D","a","t","e","C","r","e","a","t","e","d">>
W_count == <<"c","o","u","n","t">>
W_name == <<"n","a","m","e">>
W_email == <<"e","m","a","i","l">>

N_Event == <<"E","v","e","n","t">>
N_Audit == <<"A","u","d","i","t">>
N_Stat == <<"S","t","a","t">>
N_User == <<"U","s","e","r">>
N_Status == <<"S","t","a","t","u","s">>
N_Mode == <<"M","o","d","e">>

Int32Schema == Schema(Some("integer"), "int32")
Int64Schema == Schema(Some("integer"), "int64")
IntegerSchema == Schema(Some("integer"), "")

ObjectWith(properties, required) ==
    [ObjectSchema EXCEPT !.properties = properties, !.required = required]

EnumOf(enum) == [StringSchema EXCEPT !.enum = enum]

N_Registry == <<"R","e","g","i","s","t","r","y">>
N_Bag == <<"B","a","g">>
W_byName == <<"b","y","N","a","m","e">>
W_labels == <<"l","a","b","e","l","s">>
W_extra == <<"e","x","t","r","a">>
W_raw == <<"r","a","w">>

\* an object schema whose additionalProperties is the given schema
MapOf(schemaRef) ==
    [ObjectSchema EXCEPT !.addl = Some(schemaRef), !.addlHas = Some(TRUE)]

\* the named schemas a document of the model may define
SchemaPool ==
    (N_Event :> Inline(ObjectWith((W_createdDate :> Inline(Int32Schema))
                                  @@ (W_score :> Inline(Int32Schema)),
                                  <<W_score>>)))
    @@ (N_Audit :> Inline(ObjectWith((W_lastModifiedDATE :> Inline(Int32Schema))
                                     @@ (W_updatedDate :> Inline(Int64Schema)),
                                     <<>>)))
    @@ (N_Stat :> Inline(ObjectWith((W_userDateCreated :> Inline(Int32Schema))
                                    @@ (W_count :> Inline(IntegerSchema)),
                                    <<>>)))
    @@ (N_User :> Inline(ObjectWith((W_id :> Inline(Int64Schema))
                                    @@ (W_name :> Inline(StringSchema))
                                    @@ (W_email :> Inline(StringSchema)),
                                    <<W_id, W_name>>)))
    @@ (N_Status :> Inline(EnumOf(<<EnumString(<<"o","n">>), EnumOther,
                                    EnumString(<<"o","f","f">>)>>)))
    @@ (N_Mode :> Inline([ObjectWith((W_name :> Inline(StringSchema)), <<W_name>>)
                            EXCEPT !.enum = <<EnumString(<<"o","n">>)>>]))
    @@ (N_Registry :>
          Inline(ObjectWith((W_byName :> Inline(MapOf(RefTo(N_User, ObjectSchema))))
                            @@ (W_labels :> Inline(MapOf(Inline(StringSchema)))),
                            <<>>)))
    @@ (N_Bag :>
          Inline(ObjectWith((W_extra :> Inline([ObjectSchema EXCEPT !.addlHas = Some(TRUE)]))
                            @@ (W_raw :> Inline(ObjectSchema)),
                            <<>>)))

PathUsers == [path |-> P_users,
              ops |-> [m \in {"GET", "POST"} |->
                        IF m = "GET" THEN PlainOp(<<>>) ELSE PlainOp(Id_createUser)]]
PathUserById ==
    [path |-> P_userById,
     ops |-> [m \in {"GET", "DELETE"} |->
               Op(<<>>, <<PathParam(W_id)>>, None, (C200 :> NoContent))]]
PathV1Users == [path |-> P_v1users, ops |-> [m \in {"GET"} |-> PlainOp(<<>>)]]
PathV2Users == [path |-> P_v2users, ops |-> [m \in {"GET", "POST"} |-> PlainOp(<<>>)]]
PathApiUsers == [path |-> P_apiusers,
                 ops |-> [m \in {"GET", "POST"} |->
                           IF m = "GET" THEN PlainOp(Id_getUsers) ELSE PlainOp(<<>>)]]
PathSpecial == [path |-> P_special, ops |-> [m \in {"GET"} |-> PlainOp(Id_get_users_2)]]
\* an operation without identifier whose synthesized name is GetUsers2
PathUsers2 == [path |-> P_users2, ops |-> [m \in {"GET"} |-> PlainOp(<<>>)]]
PathLinks == [path |-> P_links,
              ops |-> [m \in {"GET"} |->
                        Op(Id_getLink,
                           <<PathParam(W_id), PathParam(W_packageKey), QueryParam(W_limit)>>,
                           None, (C200 :> NoContent))]]
PathAssets(codes) ==
    [path |-> P_assets,
     ops |-> [m \in {"POST"} |->
               Op(Id_createAsset, <<PathParam(W_assetId)>>, Some(AssetBody),
                  Restrict(ResponsePool, codes))]]

\* the paths of TestGenerateOperationName that the pool above lacks
PathRoot == [path |-> P_root, ops |-> [m \in {"GET"} |-> PlainOp(<<>>)]]
PathUserPosts ==
    [path |-> P_userPosts,
     ops |-> [m \in {"GET"} |-> Op(<<>>, <<PathParam(W_id)>>, None, (C200 :> NoContent))]]

SegmentPool == { PathRoot, PathUserPosts }

\* an operation with a date-time query parameter
P_events == <<"/","e","v","e","n","t","s">>
W_startDate == <<"s","t","a","r","t","D","a","t","e">>
PathEvents ==
    [path |-> P_events,
     ops |-> [m \in {"GET"} |->
               Op(<<>>,
                  <<[value |-> TRUE, name |-> W_startDate, in |-> "query",
                     required |-> FALSE,
                     schema |-> Some(Inline(Schema(Some("string"), "date-time")))]>>,
                  None, (C200 :> NoContent))]]

NamingPool == { PathUsers, PathUserById, PathV1Users, PathV2Users, PathApiUsers, PathSpecial,
                PathUsers2, PathLinks }

(***************************************************************************)
(* Uniqueness resolution as the specification describes it                 *)
(***************************************************************************)
\* strconv.Itoa for n >= 0
RECURSIVE Decimal(_)
Decimal(n) ==
    IF n < 10 THEN <<DigitChars[n + 1]>>
    ELSE Decimal(n \div 10) \o <<DigitChars[(n % 10) + 1]>>

\* candidate when it is free, else candidate+N for the smallest N >= 2 that is
resolveUniqueName(candidate, takenNames) ==
    IF candidate \notin takenNames THEN candidate
    ELSE LET free(n) == (candidate \o Decimal(n)) \notin takenNames
             N == CHOOSE n \in 2..(Cardinality(takenNames) + 2) :
                     free(n) /\ \A m \in 2..(n - 1) : ~free(m)
         IN candidate \o Decimal(N)


(***************************************************************************)
(* extractOperations / extractPathOperations                               *)
(***************************************************************************)
\* Paths.InMatchingOrder of kin-openapi: fewer path variables first, and
\* among paths with as many variables, in descending string order
MatchesBefore(p, q) ==
    \/ CountChar(p, "}") < CountChar(q, "}")
    \/ CountChar(p, "}") = CountChar(q, "}") /\ StrLess(q, p)

RECURSIVE SortPaths(_)
SortPaths(ps) ==
    IF ps = {} THEN <<>>
    ELSE LET first == CHOOSE p \in ps : \A q \in ps \ {p} : MatchesBefore(p, q)
         IN <<first>> \o SortPaths(ps \ {first})

InMatchingOrder(doc) == SortPaths({ item.path : item \in doc.paths })

PathItemOf(doc, path) == CHOOSE item \in doc.paths : item.path = path

\* operation.Name before any other field is filled in
OperationName(method, path, op) ==
    IF op.operationId # <<>>
    THEN toPascalCase(op.operationId)
    ELSE generateOperationName(MethodName[method], path)

RECURSIVE ExtractParameters(_)
ExtractParameters(paramRefs) ==
    IF paramRefs = <<>> THEN <<>>
    ELSE LET ref == Head(paramRefs)
             param == [Name |-> ref.name, In |-> ref.in, Required |-> ref.required,
                       Type |-> IF ref.schema # None
                                THEN schemaRefToGoType(ref.schema) ELSE <<>>]
         IN (IF ref.value THEN <<param>> ELSE <<>>)
            \o ExtractParameters(Tail(paramRefs))

ExtractRequestBody(op) ==
    IF op.requestBody # None /\ op.requestBody[1].json # None
    THEN Some([Type |-> schemaRefToGoType(op.requestBody[1].json),
               Required |-> op.requestBody[1].required])
    ELSE None

ResponseOf(statusCode, ref) ==
    [StatusCode |-> statusCode,
     Type |-> IF ref.json # None THEN schemaRefToGoType(ref.json)
              ELSE IF ref.wild # None THEN schemaRefToGoType(ref.wild)
              ELSE <<>>]

IsSuccessCode(statusCode) == HasPrefix(statusCode, <<"2">>)

\* variant: only the 4xx class is tracked as an error
IsErrorCode_ClientOnly(statusCode) == HasPrefix(statusCode, <<"4">>)

IsErrorCode(statusCode) ==
    HasPrefix(statusCode, <<"4">>) \/ HasPrefix(statusCode, <<"5">>)

\* variant: a 2xx response without a content schema is not counted
RECURSIVE ResponseLoop_TypedOnly(_, _, _)
ResponseLoop_TypedOnly(responses, order, acc) ==
    IF order = <<>> THEN acc
    ELSE
      LET statusCode == Head(order)
          ref  == responses[statusCode]
          resp == ResponseOf(statusCode, ref)
          next ==
            [Responses |-> (statusCode :> resp) @@ acc.Responses,
             successCount |-> IF IsSuccessCode(statusCode) /\ resp.Type # <<>>
                              THEN acc.successCount + 1 ELSE acc.successCount,
             SuccessResponse |->
                 IF IsSuccessCode(statusCode) /\ acc.SuccessResponse = None
                 THEN Some(resp) ELSE acc.SuccessResponse,
             ErrorResponses |->
                 IF IsErrorCode(statusCode)
                 THEN Append(acc.ErrorResponses, resp) ELSE acc.ErrorResponses]
      IN ResponseLoop_TypedOnly(responses, Tail(order), IF ref.value THEN next ELSE acc)

\* variant: an error response without a content schema is not collected
RECURSIVE ResponseLoop_SkipUntyped(_, _, _)
ResponseLoop_SkipUntyped(responses, order, acc) ==
    IF order = <<>> THEN acc
    ELSE
      LET statusCode == Head(order)
          ref  == responses[statusCode]
          resp == ResponseOf(statusCode, ref)
          next ==
            [Responses |-> (statusCode :> resp) @@ acc.Responses,
             successCount |-> IF IsSuccessCode(statusCode)
                              THEN acc.successCount + 1 ELSE acc.successCount,
             SuccessResponse |->
                 IF IsSuccessCode(statusCode) /\ acc.SuccessResponse = None
                 THEN Some(resp) ELSE acc.SuccessResponse,
             ErrorResponses |->
                 IF IsErrorCode(statusCode) /\ resp.Type # <<>>
                 THEN Append(acc.ErrorResponses, resp) ELSE acc.ErrorResponses]
      IN ResponseLoop_SkipUntyped(responses, Tail(order), IF ref.value THEN next ELSE acc)

\* the loop over op.Responses.Map(), visiting the status codes in `order`
RECURSIVE ResponseLoop(_, _, _)
ResponseLoop(responses, order, acc) ==
    IF order = <<>> THEN acc
    ELSE
      LET statusCode == Head(order)
          ref  == responses[statusCode]
          resp == ResponseOf(statusCode, ref)
          next ==
            [Responses |-> (statusCode :> resp) @@ acc.Responses,
             successCount |-> IF IsSuccessCode(statusCode)
                              THEN acc.successCount + 1 ELSE acc.successCount,
             SuccessResponse |->
                 IF IsSuccessCode(statusCode) /\ acc.SuccessResponse = None
                 THEN Some(resp) ELSE acc.SuccessResponse,
             ErrorResponses |->
                 IF IsErrorCode(statusCode)
                 THEN Append(acc.ErrorResponses, resp) ELSE acc.ErrorResponses]
      IN ResponseLoop(responses, Tail(order), IF ref.value THEN next ELSE acc)

processOp(method, path, op, order) ==
    LET acc == ResponseLoop(op.responses, order,
                   [Responses |-> EmptyMap, successCount |-> 0,
                    SuccessResponse |-> None, ErrorResponses |-> <<>>])
    IN [Name |-> OperationName(method, path, op),
        Method |-> method,
        Path |-> path,
        OperationID |-> op.operationId,
        Parameters |-> ExtractParameters(op.parameters),
        RequestBody |-> ExtractRequestBody(op),
        Responses |-> acc.Responses,
        SuccessResponse |-> acc.SuccessResponse,
        HasMultipleSuccessResponses |-> acc.successCount > 1,
        ErrorResponses |-> acc.ErrorResponses]

\* the methods a path item defines, in the order processOp is called on them
RECURSIVE DefinedMethods(_, _)
DefinedMethods(pathItem, methods) ==
    IF methods = <<>> THEN <<>>
    ELSE (IF Head(methods) \in DOMAIN pathItem.ops THEN <<Head(methods)>> ELSE <<>>)
         \o DefinedMethods(pathItem, Tail(methods))

\* orders[k] is the iteration order of the response map of the k-th operation
extractPathOperations(path, pathItem, orders) ==
    LET methods == DefinedMethods(pathItem, MethodOrder)
    IN [k \in 1..Len(methods) |->
          processOp(methods[k], path, pathItem.ops[methods[k]], orders[k])]

RECURSIVE ExtractPaths(_, _, _)
ExtractPaths(doc, paths, orders) ==
    IF paths = <<>> THEN <<>>
    ELSE extractPathOperations(Head(paths), PathItemOf(doc, Head(paths)), Head(orders))
         \o ExtractPaths(doc, Tail(paths), Tail(orders))

extractOperations(doc, orders) == ExtractPaths(doc, InMatchingOrder(doc), orders)

\* the iteration orders the runtime may choose during one extraction pass
PathOrderings(pathItem) ==
    LET methods == DefinedMethods(pathItem, MethodOrder)
    IN SeqProduct([k \in 1..Len(methods) |->
                      Perms(DOMAIN pathItem.ops[methods[k]].responses)])

DocOrderings(doc) ==
    LET paths == InMatchingOrder(doc)
    IN SeqProduct([k \in 1..Len(paths) |-> PathOrderings(PathItemOf(doc, paths[k]))])

RECURSIVE Flatten(_)
Flatten(ss) == IF ss = <<>> THEN <<>> ELSE Head(ss) \o Flatten(Tail(ss))

\* an extraction pass that is over: the document it ran on, what it returned
Pass(doc, ops) == [doc |-> doc, ops |-> ops]

(***************************************************************************)
(* State machine                                                           *)
(***************************************************************************)
MaxPaths == 3

MaxSchemas == 1

NamingDocs ==
    { [paths |-> ps, schemas |-> EmptyMap] :
        ps \in { S \in SUBSET NamingPool : Cardinality(S) \in 1..MaxPaths } }

ResponseDocs ==
    { [paths |-> { PathAssets(codes) }, schemas |-> EmptyMap] : codes \in ResponseSets }

SchemaDocs ==
    { [paths |-> {}, schemas |-> Restrict(SchemaPool, ns)] :
        ns \in { S \in SUBSET (DOMAIN SchemaPool) : Cardinality(S) \in 1..MaxSchemas } }

SegmentDocs == { [paths |-> { item }, schemas |-> EmptyMap] : item \in SegmentPool }

Docs == NamingDocs \cup ResponseDocs \cup SchemaDocs \cup SegmentDocs

\* ClientImport is "" unless a custom import path is configured; NewGenerator
\* defaults ModelPackage and ClientPackage to PackageName
Configs == [GenerateModels : BOOLEAN, GenerateClient : BOOLEAN, Verbose : BOOLEAN,
            ClientImport : {"", "github.com/myorg/myclient"},
            ModelPackage : {"myapi"}, ClientPackage : {"myapi"}]

\* the configuration of the extraction tests: both artifacts, not verbose
DefaultConfig == [GenerateModels |-> TRUE, GenerateClient |-> TRUE, Verbose |-> FALSE,
                  ClientImport |-> "", ModelPackage |-> "myapi",
                  ClientPackage |-> "myapi"]

Artifacts == {"models", "client"}

\* generateModels writes models.go, generateClient writes client.go
OutputPath == [models |-> "models.go", client |-> "client.go"]
UnformattedPath == [models |-> "models.go.unformatted", client |-> "client.go.unformatted"]

FileNames == { OutputPath[a] : a \in Artifacts } \cup { UnformattedPath[a] : a \in Artifacts }

\* a run in which the output directory, the templates, the formatter and the
\* file system all work
Healthy == [mkdirFails |-> FALSE, renderFails |-> {}, formatFails |-> {}, writeFails |-> {}]

\* the file at config.SpecPath: a document, or None when it does not load or
\* does not validate
\* a document that loads and does not validate: its operation declares no
\* response
PathNoResponses == [path |-> P_root, ops |-> [m \in {"GET"} |-> Op(<<>>, <<>>, None, EmptyMap)]]
InvalidDoc == [paths |-> { PathNoResponses }, schemas |-> EmptyMap]

\* the names between braces of a path template
RECURSIVE TemplateParams(_)
TemplateParams(path) ==
    IF path = <<>> THEN {}
    ELSE IF path[1] = "{" /\ \E i \in DOMAIN path : path[i] = "}"
    THEN LET close == CHOOSE i \in DOMAIN path :
                         path[i] = "}" /\ \A j \in 1..(i - 1) : path[j] # "}"
         IN { SubSeq(path, 2, close - 1) }
            \cup TemplateParams(SubSeq(path, close + 1, Len(path)))
    ELSE TemplateParams(Tail(path))

\* the path parameters an operation declares
DeclaredPathParams(op) ==
    { op.parameters[i].name : i \in { k \in DOMAIN op.parameters :
                                        op.parameters[k].in = "path" } }

\* spec.Validate, for the rules a document of the model can break: every
\* operation declares at least one response, and declares exactly the path
\* parameters of its path template
Validates(doc) ==
    \A item \in doc.paths : \A m \in DOMAIN item.ops :
        /\ DOMAIN item.ops[m].responses # {}
        /\ DeclaredPathParams(item.ops[m]) = TemplateParams(item.path)

SpecFiles == { Some(doc) : doc \in Docs \cup { InvalidDoc } } \cup { None }

\* the flags of the command line with their values (the default when a
\* flag is not given), and the stage of main: "library" when the Generator
\* is used without the command line
Flags == [all : BOOLEAN, modelsOnly : BOOLEAN, clientOnly : BOOLEAN,
          verbose : BOOLEAN, spec : BOOLEAN, package : BOOLEAN,
          version : BOOLEAN]

DefaultFlags == [all |-> TRUE, modelsOnly |-> FALSE, clientOnly |-> FALSE,
                 verbose |-> FALSE, spec |-> FALSE, package |-> FALSE,
                 version |-> FALSE]

LibraryUse == [flags |-> DefaultFlags, stage |-> "library"]

\* no naming helper has been called
NoCall == [arg |-> <<>>, fns |-> <<>>, out |-> Ok(<<>>)]

\* a nil error, and an error value: its message and, for an *APIError, the
\* fields of the APIError
NoErr == [msg |-> "", api |-> None]
Err(msg) == [msg |-> msg, api |-> None]

\* what the latest Request returned, and the status and body of the
\* response httpClient.Do returned to it (None when it returned none)
NoRequest == [got |-> None, resp |-> None, err |-> NoErr, ran |-> FALSE]

\* a slice of request editors is a view of an array: the array it points
\* into (0 for a slice without array) and its length. Slices that point into
\* one array share its elements.
NilSlice == [arr |-> 0, len |-> 0]

\* the arrays of request editors that are in use at one time: at most that
\* of c.requestEditors, that of the slice a Request ranges over and that of
\* the slice the application holds
ArrayIds == {1, 2, 3}

\* no Request is under way; else how far it is ("editors" in the loop over
\* the editors, "token" in the Token call of an editor, "sent" in
\* httpClient.Do), the request as it is so far, the slice the loop ranges
\* over (the value of c.requestEditors when the loop began), the number of
\* rounds of the loop that are over and the editors they called; and, to
\* state properties, the editors that were registered when the loop began
\* and whether AddRequestEditor has since written into the slice the loop
\* ranges over
NoFlight == [stage |-> "", req |-> None, ranged |-> NilSlice, at |-> 0, calls |-> <<>>,
             registered |-> <<>>, overwritten |-> FALSE]

\* no token source has been created
NoTokenSource == [made |-> FALSE]

\* an application that uses a BaseClient: the editors it registers, whether
\* it makes slices of editors with capacity to spare, the base URLs and the
\* API keys it configures, and the replies its HTTP client gives
Application(editors, spare, urls, keys, replies) ==
    [editors |-> editors, spare |-> spare, urls |-> urls, keys |-> keys,
     replies |-> replies]

NoApplication == Application({}, FALSE, {}, {}, {})

\* no BaseClient has been created. A client has its fields, of which
\* requestEditors is a slice; beside them stand the arrays of request
\* editors (an array that is not in use is empty), the slice of editors the
\* application holds, which is the one it handed to the client last, the
\* application, the Request under way and what the latest Request returned
NoClient ==
    [made |-> FALSE, givenEmpty |-> FALSE, newErr |-> NoErr, baseURL |-> <<>>,
     apiKey |-> "", requestEditors |-> NilSlice, arrays |-> [a \in ArrayIds |-> <<>>],
     held |-> NilSlice, app |-> NoApplication,
     flight |-> NoFlight, last |-> NoRequest]

EmitDocs ==
    { [paths |-> { item }, schemas |-> Restrict(SchemaPool, { N_Status })] :
        item \in { PathUsers, PathEvents } }

\* the documents of the model
AllDocs == Docs \cup { InvalidDoc } \cup EmitDocs

\* what extractModels can return for a document: one result for each order
\* in which the runtime may range over the schemas and their properties
ModelResults ==
    [doc \in AllDocs |->
        { extractModels(doc, mo.names, mo.props) : mo \in ModelOrderings(doc) }]

\* what extractOperations can return for a document, with the order in which
\* the call ranged over each response map
OperationResults ==
    [doc \in AllDocs |->
        { [ops |-> extractOperations(doc, orders), order |-> Flatten(orders)] :
             orders \in DocOrderings(doc) }]

\* the state after NewGenerator
Init ==
    /\ config = DefaultConfig
    /\ specFile \in SpecFiles
    /\ env = Healthy
    /\ spec = None
    /\ operations = None
    /\ respOrder = <<>>
    /\ prevPass = None
    /\ models = None
    /\ outDir = FALSE
    /\ files = [f \in FileNames |-> None]
    /\ lastErr = ""
    /\ cli = LibraryUse
    /\ call = NoCall
    /\ bc = NoClient
    /\ ts = NoTokenSource

\* NewGenerator again with the same configuration: a fresh Generator
NewGenerator ==
    /\ UNCHANGED <<cli, call, bc, ts>>
    /\ spec' = None
    /\ operations' = None
    /\ respOrder' = <<>>
    /\ models' = None
    /\ lastErr' = ""
    /\ prevPass' = IF operations # None THEN Some(Pass(spec[1], operations[1]))
                   ELSE prevPass
    /\ UNCHANGED <<config, specFile, env, outDir, files>>

\* variant: g.spec is assigned as soon as the file has loaded
LoadSpec_AssignFirst ==
    /\ UNCHANGED <<cli, call, bc, ts>>
    /\ IF specFile = None
       THEN spec' = spec /\ lastErr' = "failed to load OpenAPI spec"
       ELSE /\ spec' = specFile
            /\ lastErr' = IF Validates(specFile[1]) THEN "" ELSE "invalid OpenAPI spec"
    /\ UNCHANGED <<config, specFile, env, operations, respOrder, prevPass,
                   models, outDir, files>>

\* LoadSpec: g.spec is set only when the file loads and validates
LoadSpec ==
    /\ UNCHANGED <<cli, call, bc, ts>>
    /\ IF specFile = None
       THEN spec' = spec /\ lastErr' = "failed to load OpenAPI spec"
       ELSE IF ~Validates(specFile[1])
       THEN spec' = spec /\ lastErr' = "invalid OpenAPI spec"
       ELSE spec' = specFile /\ lastErr' = ""
    /\ UNCHANGED <<config, specFile, env, operations, respOrder, prevPass,
                   models, outDir, files>>

\* one call of extractOperations on the loaded document
ExtractOperations ==
    /\ UNCHANGED <<cli, call, bc, ts>>
    /\ spec # None
    /\ \E pass \in OperationResults[spec[1]] :
          /\ operations' = Some(pass.ops)
          /\ respOrder' = pass.order
    /\ prevPass' = IF operations # None THEN Some(Pass(spec[1], operations[1]))
                   ELSE prevPass
    /\ UNCHANGED <<config, specFile, env, spec, models, outDir, files, lastErr>>

\* one call of extractModels on the loaded document
ExtractModels ==
    /\ UNCHANGED <<cli, call, bc, ts>>
    /\ spec # None
    /\ \E ms \in ModelResults[spec[1]] : models' = Some(ms)
    /\ UNCHANGED <<config, specFile, env, spec, operations, respOrder, prevPass,
                   outDir, files, lastErr>>

\* strings.Contains(t, "time.Time") for a type name
MentionsTime(type) == \E i \in DOMAIN type : type[i] = "time.Time"

\* getModelImports: "time" when a field type mentions time.Time
getModelImports(ms) ==
    IF \E i \in DOMAIN ms : \E j \in DOMAIN ms[i].Fields : MentionsTime(ms[i].Fields[j].Type)
    THEN {"time"} ELSE {}

DefaultClientImport == "github.com/jmcarbo/oapix/pkg/client"

\* getClientImports: the result is built from a map, so it is a set
getClientImports(ops) ==
    {"context", "fmt",
     IF config.ClientImport = "" THEN DefaultClientImport ELSE config.ClientImport}
    \cup (IF config.ModelPackage # config.ClientPackage
          THEN {"github.com/jmcarbo/oapix/<OutputDir>/models"} ELSE {})

\* variant: a failing artifact removes every file written so far
generateFile_CleanOnError(templateName, data, fs) ==
    IF templateName \in env.renderFails \cup env.formatFails \cup env.writeFails
    THEN [files |-> [f \in FileNames |-> None],
          err |-> IF templateName \in env.renderFails THEN "failed to execute template"
                  ELSE IF templateName \in env.formatFails
                  THEN "failed to format generated code"
                  ELSE "failed to write file"]
    ELSE [files |-> [fs EXCEPT ![OutputPath[templateName]] =
                       Some([formatted |-> TRUE, text |-> templateName,
                             imports |-> data.Imports])],
          err |-> ""]

\* generateFile: render the template, format the text, write the file.
\* A file is recorded by the template it was rendered from and by whether its
\* text went through the formatter; the rendered text itself is RenderClient
\* of the operations (the models) of the same call.
generateFile(templateName, data, fs) ==
    IF templateName \in env.renderFails
    THEN [files |-> fs, err |-> "failed to execute template"]
    ELSE IF templateName \in env.formatFails
    THEN [files |-> IF config.Verbose /\ templateName \notin env.writeFails
                    THEN [fs EXCEPT ![UnformattedPath[templateName]] =
                            Some([formatted |-> FALSE, text |-> templateName,
                                  imports |-> data.Imports])]
                    ELSE fs,
          err |-> "failed to format generated code"]
    ELSE IF templateName \in env.writeFails
    THEN [files |-> fs, err |-> "failed to write file"]
    ELSE [files |-> [fs EXCEPT ![OutputPath[templateName]] =
                       Some([formatted |-> TRUE, text |-> templateName,
                             imports |-> data.Imports])],
          err |-> ""]

\* the error of generateFile wrapped by Generate with the artifact's name
GenerateError(artifact, err) ==
    IF artifact = "models"
    THEN CASE err = "failed to execute template" ->
                "failed to generate models: failed to execute template"
           [] err = "failed to format generated code" ->
                "failed to generate models: failed to format generated code"
           [] err = "failed to write file" ->
                "failed to generate models: failed to write file"
    ELSE CASE err = "failed to execute template" ->
                "failed to generate client: failed to execute template"
           [] err = "failed to format generated code" ->
                "failed to generate client: failed to format generated code"
           [] err = "failed to write file" ->
                "failed to generate client: failed to write file"

\* Generate: the models artifact, then the client artifact
Generate ==
    /\ UNCHANGED <<cli, call, bc, ts>>
    /\ UNCHANGED <<config, specFile, env, spec>>
    /\ IF spec = None
       THEN /\ lastErr' = "specification not loaded"
            /\ UNCHANGED <<operations, respOrder, prevPass, models, outDir, files>>
       ELSE IF env.mkdirFails
       THEN /\ lastErr' = "failed to create output directory"
            /\ UNCHANGED <<operations, respOrder, prevPass, models, outDir, files>>
       ELSE
         \E ms \in ModelResults[spec[1]], pass \in OperationResults[spec[1]] :
           LET r1 == IF config.GenerateModels
                     THEN generateFile("models", [Imports |-> getModelImports(ms)], files)
                     ELSE [files |-> files, err |-> ""]
               doClient == config.GenerateClient /\ r1.err = ""
               ops == pass.ops
               r2 == IF doClient
                     THEN generateFile("client", [Imports |-> getClientImports(ops)],
                                       r1.files)
                     ELSE [files |-> r1.files, err |-> ""]
           IN /\ outDir' = TRUE
              /\ models' = IF config.GenerateModels THEN Some(ms) ELSE models
              /\ operations' = IF doClient THEN Some(ops) ELSE operations
              /\ respOrder' = IF doClient THEN pass.order ELSE respOrder
              /\ prevPass' = IF doClient /\ operations # None
                             THEN Some(Pass(spec[1], operations[1])) ELSE prevPass
              /\ files' = r2.files
              /\ lastErr' = IF r1.err # "" THEN GenerateError("models", r1.err)
                            ELSE IF r2.err # "" THEN GenerateError("client", r2.err)
                            ELSE ""

\* what the reader of GenerateFromReader holds: a text that does not load, a
\* document that does not validate, or a document
ReaderContents == { None, Some(InvalidDoc) } \cup { Some(doc) : doc \in SegmentDocs }

\* what becomes of the temporary file of GenerateFromReader
TempOutcomes == {"written", "create fails", "copy fails", "close fails"}

\* GenerateFromReader(reader, config) with the configuration the Generator
\* holds: the text of the reader goes to a temporary file, config.SpecPath is
\* set to its name, a Generator of its own loads the file and generates, and
\* the file is removed on return. NewGenerator does not fail here: the
\* configuration has a package name, the Generator of the model was built
\* from it. The Generator the model follows keeps its specification, and
\* config.SpecPath names no file after the call.
GenerateFromReader ==
    /\ UNCHANGED <<cli, call, bc, ts>>
    /\ UNCHANGED <<config, env, spec, operations, respOrder, prevPass, models>>
    /\ \E content \in ReaderContents, temp \in TempOutcomes :
         IF temp # "written"
         THEN /\ lastErr' = CASE temp = "create fails" -> "failed to create temp file"
                               [] temp = "copy fails" -> "failed to copy spec"
                               [] temp = "close fails" -> "failed to close temp file"
              /\ UNCHANGED <<specFile, outDir, files>>
         ELSE
           /\ specFile' = None
           /\ IF content = None
              THEN /\ lastErr' = "failed to load OpenAPI spec"
                   /\ UNCHANGED <<outDir, files>>
              ELSE IF ~Validates(content[1])
              THEN /\ lastErr' = "invalid OpenAPI spec"
                   /\ UNCHANGED <<outDir, files>>
              ELSE IF env.mkdirFails
              THEN /\ lastErr' = "failed to create output directory"
                   /\ UNCHANGED <<outDir, files>>
              ELSE
                \E ms \in ModelResults[content[1]],
                   pass \in OperationResults[content[1]] :
                  LET r1 == IF config.GenerateModels
                            THEN generateFile("models", [Imports |-> getModelImports(ms)],
                                              files)
                            ELSE [files |-> files, err |-> ""]
                      ops == pass.ops
                      r2 == IF config.GenerateClient /\ r1.err = ""
                            THEN generateFile("client", [Imports |-> getClientImports(ops)],
                                              r1.files)
                            ELSE [files |-> r1.files, err |-> ""]
                  IN /\ outDir' = TRUE
                     /\ files' = r2.files
                     /\ lastErr' = IF r1.err # "" THEN GenerateError("models", r1.err)
                                   ELSE IF r2.err # "" THEN GenerateError("client", r2.err)
                                   ELSE ""

Next ==
    \/ NewGenerator
    \/ LoadSpec
    \/ ExtractOperations
    \/ ExtractModels
    \/ Generate
    \/ GenerateFromReader

Spec == Init /\ [][Next]_vars

(***************************************************************************)
(* The emitter under every run configuration and every outcome of the      *)
(* templates, the formatter and the file system                            *)
(***************************************************************************)
\* what may go wrong for one artifact: nothing, rendering, formatting (with
\* or without a working file system), writing
Outcomes == {"ok", "render", "format", "formatNoWrite", "write"}

EnvOf(mkdirFails, outcome) ==
    [mkdirFails |-> mkdirFails,
     renderFails |-> { a \in Artifacts : outcome[a] = "render" },
     formatFails |-> { a \in Artifacts : outcome[a] \in {"format", "formatNoWrite"} },
     writeFails |-> { a \in Artifacts : outcome[a] \in {"formatNoWrite", "write"} }]

Envs == { EnvOf(m, o) : m \in BOOLEAN, o \in [Artifacts -> Outcomes] }

\* a document with one path and one schema, so that both artifacts have
\* something to render
InitEmit ==
    /\ config \in Configs
    /\ specFile \in { Some(doc) : doc \in EmitDocs }
    /\ env \in Envs
    /\ spec = None
    /\ operations = None
    /\ respOrder = <<>>
    /\ prevPass = None
    /\ models = None
    /\ outDir = FALSE
    /\ files = [f \in FileNames |-> None]
    /\ lastErr = ""
    /\ cli = LibraryUse
    /\ call = NoCall
    /\ bc = NoClient
    /\ ts = NoTokenSource

SpecEmit == InitEmit /\ [][Next]_vars

(***************************************************************************)
(* The command line: main                                                  *)
(***************************************************************************)
\* the toggles main passes to the generator
ConfigOf(flags) ==
    [GenerateModels |-> flags.all \/ flags.modelsOnly,
     GenerateClient |-> flags.all \/ flags.clientOnly,
     Verbose |-> flags.verbose,
     ClientImport |-> "", ModelPackage |-> "myapi", ClientPackage |-> "myapi"]

\* the process has not exited: no step has failed and Generate has not run
Running == cli.stage = "configured" /\ lastErr = "" /\ ~outDir

\* main up to NewGenerator: flag validation and the configuration
MainConfigure ==
    /\ cli.stage = "start"
    /\ UNCHANGED <<specFile, env, spec, operations, respOrder, prevPass, models,
                   outDir, files, call, bc, ts>>
    /\ IF cli.flags.version
       THEN /\ cli' = [cli EXCEPT !.stage = "exited"]
            /\ UNCHANGED <<config, lastErr>>
       ELSE IF ~cli.flags.spec
       THEN /\ cli' = [cli EXCEPT !.stage = "exited"]
            /\ lastErr' = "Error: -spec flag is required"
            /\ UNCHANGED config
       ELSE IF ~cli.flags.package
       THEN /\ cli' = [cli EXCEPT !.stage = "exited"]
            /\ lastErr' = "Error: -package flag is required"
            /\ UNCHANGED config
       ELSE IF cli.flags.modelsOnly /\ cli.flags.clientOnly
       THEN /\ cli' = [cli EXCEPT !.stage = "exited"]
            /\ lastErr' = "Error: -models-only and -client-only are mutually exclusive"
            /\ UNCHANGED config
       ELSE /\ cli' = [cli EXCEPT !.stage = "configured"]
            /\ config' = ConfigOf(cli.flags)
            /\ UNCHANGED lastErr

\* generator.LoadSpec() in main
MainLoadSpec == Running /\ spec = None /\ LoadSpec

\* generator.Generate() in main
MainGenerate == Running /\ spec # None /\ Generate

\* before main creates the configuration, config holds the zero toggles
InitCLI ==
    /\ cli \in [flags : Flags, stage : {"start"}]
    /\ config = [GenerateModels |-> FALSE, GenerateClient |-> FALSE, Verbose |-> FALSE,
                 ClientImport |-> "", ModelPackage |-> "", ClientPackage |-> ""]
    /\ specFile \in { Some(doc) : doc \in EmitDocs } \cup { None }
    /\ env = Healthy
    /\ spec = None
    /\ operations = None
    /\ respOrder = <<>>
    /\ prevPass = None
    /\ models = None
    /\ outDir = FALSE
    /\ files = [f \in FileNames |-> None]
    /\ lastErr = ""
    /\ call = NoCall
    /\ bc = NoClient
    /\ ts = NoTokenSource

NextCLI ==
    \/ MainConfigure
    \/ MainLoadSpec
    \/ MainGenerate

SpecCLI == InitCLI /\ [][NextCLI]_vars

(***************************************************************************)
(* The naming helpers applied to strings, alone and one after another      *)
(***************************************************************************)
Alphabet == {"a", "y", "s", "e", "A", "_"}

MaxWordLen == 2

\* every string over Alphabet of at most MaxWordLen characters
ShortWords == UNION { [1..n -> Alphabet] : n \in 0..MaxWordLen }

RegularPlurals ==
    { <<"u","s","e","r","s">>,
      <<"c","i","t","i","e","s">>,
      <<"b","o","x","e","s">>,
      <<"c","l","a","s","s","e","s">>,
      <<"b","u","s","e","s">>,
      <<"d","i","s","h","e","s">>,
      <<"b","o","y","s">>,
      <<"c","o","u","n","t","r","i","e","s">>,
      <<"U","s","e","r","s">> }

\* the words of the irregular table, as they are and capitalized
IrregularSingulars ==
    UNION { { Irregular[i][1], Capitalize(Irregular[i][1]) } : i \in DOMAIN Irregular }
IrregularPlurals ==
    UNION { { Irregular[i][2], Capitalize(Irregular[i][2]) } : i \in DOMAIN Irregular }

SnakeIdentifiers ==
    { <<"u","s","e","r","_","i","d">>,
      <<"a","p","i","_","u","r","l">>,
      <<"g","e","t","_","u","s","e","r","s","_","2">>,
      <<"h","e","l","l","o","_","w","o","r","l","d">>,
      <<"a","l","r","e","a","d","y","_","s","n","a","k","e","_","c","a","s","e">> }

KebabIdentifiers ==
    { <<"h","e","l","l","o","-","w","o","r","l","d">>,
      <<"u","s","e","r","-","i","d">>,
      <<"a","p","i","-","u","r","l">> }

MixedIdentifiers ==
    { <<"A","P","I","_","k","e","y">>,
      <<"H","T","T","P","R","e","q","u","e","s","t">>,
      <<"X","M","L","P","a","r","s","e","r">>,
      <<"A","B","C","D","e","f">>,
      <<"H","e","l","l","o","W","o","r","l","d">> }

Words == ShortWords \cup RegularPlurals \cup IrregularSingulars \cup IrregularPlurals
         \cup SnakeIdentifiers \cup KebabIdentifiers \cup MixedIdentifiers

MaxCalls == 2

\* a helper may be applied to the string the previous one returned
CanCall == Len(call.fns) < MaxCalls /\ call.out.ok

Applied(fn, outcome) == [call EXCEPT !.fns = Append(@, fn), !.out = outcome]

CallToPascalCase ==
    /\ CanCall
    /\ call' = Applied("toPascalCase", Ok(toPascalCase(call.out.value)))
    /\ UNCHANGED <<config, specFile, spec, operations, respOrder, prevPass,
                   models, env, outDir, files, lastErr, cli, bc, ts>>

CallToCamelCase ==
    /\ CanCall
    /\ call' = Applied("toCamelCase", Ok(toCamelCase(call.out.value)))
    /\ UNCHANGED <<config, specFile, spec, operations, respOrder, prevPass,
                   models, env, outDir, files, lastErr, cli, bc, ts>>

CallToSnakeCase ==
    /\ CanCall
    /\ call' = Applied("toSnakeCase", Ok(toSnakeCase(call.out.value)))
    /\ UNCHANGED <<config, specFile, spec, operations, respOrder, prevPass,
                   models, env, outDir, files, lastErr, cli, bc, ts>>

CallToKebabCase ==
    /\ CanCall
    /\ call' = Applied("toKebabCase", Ok(toKebabCase(call.out.value)))
    /\ UNCHANGED <<config, specFile, spec, operations, respOrder, prevPass,
                   models, env, outDir, files, lastErr, cli, bc, ts>>

CallPluralize ==
    /\ CanCall
    /\ call' = Applied("pluralize", pluralize(call.out.value))
    /\ UNCHANGED <<config, specFile, spec, operations, respOrder, prevPass,
                   models, env, outDir, files, lastErr, cli, bc, ts>>

CallSingularize ==
    /\ CanCall
    /\ call' = Applied("singularize", Ok(singularize(call.out.value)))
    /\ UNCHANGED <<config, specFile, spec, operations, respOrder, prevPass,
                   models, env, outDir, files, lastErr, cli, bc, ts>>

InitNaming ==
    /\ call \in { [arg |-> w, fns |-> <<>>, out |-> Ok(w)] : w \in Words }
    /\ config = DefaultConfig
    /\ specFile = None
    /\ env = Healthy
    /\ spec = None
    /\ operations = None
    /\ respOrder = <<>>
    /\ prevPass = None
    /\ models = None
    /\ outDir = FALSE
    /\ files = [f \in FileNames |-> None]
    /\ lastErr = ""
    /\ cli = LibraryUse
    /\ bc = NoClient
    /\ ts = NoTokenSource

NextNaming ==
    \/ CallToPascalCase
    \/ CallToCamelCase
    \/ CallToSnakeCase
    \/ CallToKebabCase
    \/ CallPluralize
    \/ CallSingularize

SpecNaming == InitNaming /\ [][NextNaming]_vars

(***************************************************************************)
(* The OAuth2 client credentials token source (pkg/client/oauth2)          *)
(***************************************************************************)
\* the goroutines that call Token
Goroutines == {"g1", "g2"}

\* time is counted in minutes; ExpiryDelta defaults to 60 seconds
DefaultExpiryDelta == 1
ExpiryDeltas == {0, 2}

\* the expires_in values of the token endpoint, in minutes
ExpiresIns == {1, 3}

MaxTime == 2
MaxRequests == 2

\* the n-th access token the endpoint issues
AccessToken(n) == <<"t">> \o Decimal(n)

\* what the token endpoint answers to the n-th request: no answer, a status
\* other than 200, a body that does not decode, the body {} or a token
TokenReplies(n) ==
    { [kind |-> k, AccessToken |-> <<>>, ExpiresIn |-> 0] :
         k \in {"transport error", "status 401", "invalid json", "empty object"} }
    \cup { [kind |-> "token", AccessToken |-> AccessToken(n), ExpiresIn |-> e] :
              e \in ExpiresIns }

\* requestToken once the request is created: the token, or the error
requestToken(reply) ==
    CASE reply.kind = "transport error" ->
            [token |-> None, err |-> "failed to execute token request"]
      [] reply.kind = "status 401" ->
            [token |-> None, err |-> "token request failed with status 401"]
      [] reply.kind = "invalid json" ->
            [token |-> None, err |-> "failed to decode token response"]
      [] OTHER ->
            [token |-> Some([AccessToken |-> reply.AccessToken,
                             ExpiresIn |-> reply.ExpiresIn]),
             err |-> ""]

\* what the latest Token call of a goroutine returned, the return statement
\* it returned from, and the lock it held when it last looked at the cache
NoReturn == [path |-> "", token |-> <<>>, err |-> "", held |-> TRUE]

\* NewClientCredentialsTokenSource; urlOK tells whether config.TokenURL is a
\* URL a request can be created for
NewClientCredentialsTokenSource(expiryDelta, urlOK) ==
    [made |-> TRUE,
     delta |-> IF expiryDelta = 0 THEN DefaultExpiryDelta ELSE expiryDelta,
     urlOK |-> urlOK,
     token |-> None, tokenExpiry |-> 0,
     readers |-> {}, writer |-> {},
     now |-> 0, requests |-> 0, clean |-> TRUE,
     pc |-> [g \in Goroutines |-> "idle"],
     ret |-> [g \in Goroutines |-> NoReturn]]

\* variant: a cached token is taken to be good whatever the time
Unexpired_TokenOnly(s) == s.token # None

\* c.token != nil && time.Now().Before(c.tokenExpiry)
Unexpired(s) == s.token # None /\ s.now < s.tokenExpiry

\* the token source once g holds the read lock
RLocked(s, g) ==
    [s EXCEPT !.readers = @ \cup {g}, !.pc[g] = "rlocked", !.ret[g] = NoReturn]

\* c.mu.RLock(): the call begins. The read lock is granted when no goroutine
\* holds the write lock; a reader that waits behind a pending writer only
\* takes the lock later
TokenRLock(g) ==
    /\ ts.made
    /\ ts.pc[g] = "idle"
    /\ ts.requests < MaxRequests
    /\ ts.writer = {}
    /\ ts' = RLocked(ts, g)
    /\ UNCHANGED <<config, specFile, spec, operations, respOrder, prevPass,
                   models, env, outDir, files, lastErr, cli, call, bc>>

\* the check under the read lock, and RUnlock
TokenCheck(g) ==
    /\ ts.pc[g] = "rlocked"
    /\ LET released == [ts EXCEPT !.readers = @ \ {g}]
       IN ts' = IF Unexpired(ts)
                THEN [released EXCEPT !.pc[g] = "idle",
                        !.ret[g] = [path |-> "read lock", token |-> ts.token[1].AccessToken,
                                    err |-> "", held |-> g \in ts.readers]]
                ELSE [released EXCEPT !.pc[g] = "unlocked",
                        !.ret[g].held = g \in ts.readers]
    /\ UNCHANGED <<config, specFile, spec, operations, respOrder, prevPass,
                   models, env, outDir, files, lastErr, cli, call, bc>>

\* c.mu.Lock()
TokenLock(g) ==
    /\ ts.pc[g] = "unlocked"
    /\ ts.readers = {} /\ ts.writer = {}
    /\ ts' = [ts EXCEPT !.writer = {g}, !.pc[g] = "locked"]
    /\ UNCHANGED <<config, specFile, spec, operations, respOrder, prevPass,
                   models, env, outDir, files, lastErr, cli, call, bc>>

\* variant: no second check, every call that took the write lock asks for a
\* token
Rechecked_Always(s, g) ==
    IF ~s.urlOK
    THEN [s EXCEPT !.writer = {}, !.pc[g] = "idle",
             !.ret[g] = [path |-> "request", token |-> <<>>,
                         err |-> "failed to create token request",
                         held |-> @.held /\ g \in s.writer]]
    ELSE [s EXCEPT !.requests = @ + 1, !.pc[g] = "requesting",
             !.ret[g].held = @ /\ g \in s.writer]

\* the second check under the write lock; when it fails the token request is
\* created and sent
Rechecked(s, g) ==
    IF Unexpired(s)
    THEN [s EXCEPT !.writer = {}, !.pc[g] = "idle",
             !.ret[g] = [path |-> "write lock", token |-> s.token[1].AccessToken,
                         err |-> "", held |-> @.held /\ g \in s.writer]]
    ELSE IF ~s.urlOK
    THEN [s EXCEPT !.writer = {}, !.pc[g] = "idle",
             !.ret[g] = [path |-> "request", token |-> <<>>,
                         err |-> "failed to create token request",
                         held |-> @.held /\ g \in s.writer]]
    ELSE [s EXCEPT !.requests = @ + 1, !.pc[g] = "requesting",
             !.ret[g].held = @ /\ g \in s.writer]

TokenRecheck(g) ==
    /\ ts.pc[g] = "locked"
    /\ ts' = Rechecked(ts, g)
    /\ UNCHANGED <<config, specFile, spec, operations, respOrder, prevPass,
                   models, env, outDir, files, lastErr, cli, call, bc>>

\* variant: the cache is cleared when the token request fails
Responded_ClearOnError(s, g, reply) ==
    LET r == requestToken(reply)
    IN IF r.err # ""
       THEN [s EXCEPT !.writer = {}, !.pc[g] = "idle", !.clean = FALSE,
                !.token = None, !.tokenExpiry = 0,
                !.ret[g] = [path |-> "request", token |-> <<>>, err |-> r.err,
                            held |-> @.held /\ g \in s.writer]]
       ELSE [s EXCEPT !.writer = {}, !.pc[g] = "idle",
                !.clean = @ /\ reply.ExpiresIn > s.delta,
                !.token = r.token,
                !.tokenExpiry = s.now + reply.ExpiresIn - s.delta,
                !.ret[g] = [path |-> "request", token |-> reply.AccessToken, err |-> "",
                            held |-> @.held /\ g \in s.writer]]

\* the rest of Token once the endpoint has answered: the error is returned,
\* or the token and its expiry are stored; the deferred Unlock runs
Responded(s, g, reply) ==
    LET r == requestToken(reply)
    IN IF r.err # ""
       THEN [s EXCEPT !.writer = {}, !.pc[g] = "idle", !.clean = FALSE,
                !.ret[g] = [path |-> "request", token |-> <<>>, err |-> r.err,
                            held |-> @.held /\ g \in s.writer]]
       ELSE [s EXCEPT !.writer = {}, !.pc[g] = "idle",
                !.clean = @ /\ reply.ExpiresIn > s.delta,
                !.token = r.token,
                !.tokenExpiry = s.now + reply.ExpiresIn - s.delta,
                !.ret[g] = [path |-> "request", token |-> reply.AccessToken, err |-> "",
                            held |-> @.held /\ g \in s.writer]]

TokenRespond(g) ==
    /\ ts.pc[g] = "requesting"
    /\ \E reply \in TokenReplies(ts.requests) : ts' = Responded(ts, g, reply)
    /\ UNCHANGED <<config, specFile, spec, operations, respOrder, prevPass,
                   models, env, outDir, files, lastErr, cli, call, bc>>

\* a minute passes
Tick ==
    /\ ts.made
    /\ ts.now < MaxTime
    /\ ts' = [ts EXCEPT !.now = @ + 1]
    /\ UNCHANGED <<config, specFile, spec, operations, respOrder, prevPass,
                   models, env, outDir, files, lastErr, cli, call, bc>>

InitToken ==
    /\ ts \in { NewClientCredentialsTokenSource(d, u) : d \in ExpiryDeltas, u \in BOOLEAN }
    /\ bc = NoClient
    /\ call = NoCall
    /\ config = DefaultConfig
    /\ specFile = None
    /\ env = Healthy
    /\ spec = None
    /\ operations = None
    /\ respOrder = <<>>
    /\ prevPass = None
    /\ models = None
    /\ outDir = FALSE
    /\ files = [f \in FileNames |-> None]
    /\ lastErr = ""
    /\ cli = LibraryUse

NextToken ==
    \/ \E g \in Goroutines : TokenRLock(g)
    \/ \E g \in Goroutines : TokenCheck(g)
    \/ \E g \in Goroutines : TokenLock(g)
    \/ \E g \in Goroutines : TokenRecheck(g)
    \/ \E g \in Goroutines : TokenRespond(g)
    \/ Tick

SpecToken == InitToken /\ [][NextToken]_vars

(***************************************************************************)
(* The base client (pkg/client)                                            *)
(***************************************************************************)
U_host == <<"h","t","t","p",":","/","/","h">>
U_hostSlash == <<"h","t","t","p",":","/","/","h","/">>
U_hostV1 == <<"h","t","t","p",":","/","/","h","/","v","1">>
U_badEscape == <<"h","t","t","p",":","/","/","h","/","%">>
U_test == <<"t","e","s","t">>
U_slashTest == <<"/","t","e","s","t">>
U_badPath == <<"t","%","z","z">>

BaseURLs == { <<>>, U_host, U_hostSlash, U_hostV1, U_badEscape }
RequestPaths == { U_test, U_slashTest, U_badPath }

HexSet == DigitSet \cup {"a","b","c","d","e","f","A","B","C","D","E","F"}

\* url.Parse fails on a "%" that two hexadecimal digits do not follow
ParsesAsURL(s) ==
    \A i \in DOMAIN s :
        s[i] = "%" => /\ i + 2 <= Len(s)
                      /\ s[i + 1] \in HexSet
                      /\ s[i + 2] \in HexSet

\* strings.TrimPrefix(path, "/")
TrimLeadingSlash(path) ==
    IF HasPrefix(path, <<"/">>) THEN SubSeq(path, 2, Len(path)) ELSE path

\* the position of the last "/" of a string, 0 when it has none
LastSlash(s) == IF \E i \in DOMAIN s : s[i] = "/"
                THEN CHOOSE i \in DOMAIN s : s[i] = "/" /\ \A j \in (i+1)..Len(s) : s[j] # "/"
                ELSE 0

\* url.Parse of a URL without query and fragment: the scheme and authority
\* ("http://h", empty for a URL without a scheme) and the path after them
SplitURL(s) ==
    LET seps == { i \in 1..(Len(s) - 2) : s[i] = ":" /\ s[i+1] = "/" /\ s[i+2] = "/" }
    IN IF seps = {} THEN [origin |-> <<>>, path |-> s]
       ELSE LET k == (CHOOSE i \in seps : \A j \in seps : i <= j) + 2
                slashes == { i \in (k+1)..Len(s) : s[i] = "/" }
                p == IF slashes = {} THEN Len(s) + 1
                     ELSE CHOOSE i \in slashes : \A j \in slashes : i <= j
            IN [origin |-> SubSeq(s, 1, p - 1), path |-> SubSeq(s, p, Len(s))]

\* resolvePath of net/url for paths without dot segments: a relative
\* reference replaces what follows the last "/" of the base path, and the
\* result starts with "/" unless it is empty
resolvePath(base, ref) ==
    LET full == IF ref = <<>> THEN base
                ELSE IF ref[1] # "/" THEN SubSeq(base, 1, LastSlash(base)) \o ref
                ELSE ref
    IN IF full = <<>> THEN <<>> ELSE <<"/">> \o TrimLeadingSlash(full)

\* buildURL without query parameters
buildURL(baseURL, path) ==
    LET rel == TrimLeadingSlash(path)
        base == SplitURL(baseURL)
    IN IF ~ParsesAsURL(baseURL) THEN [url |-> <<>>, err |-> "invalid base URL"]
       ELSE IF ~ParsesAsURL(rel) THEN [url |-> <<>>, err |-> "invalid path"]
       ELSE [url |-> base.origin \o resolvePath(base.path, rel), err |-> ""]

\* the request editors of the model: two that set a header of their own, one
\* that returns an error, and ClientCredentialsAuth, which asks the token
\* source for a token and sets the Authorization header
Editors == {"editor1", "editor2", "failing", "oauth"}

\* the editors an application that registers several holds: it registers
\* editors of one pool
EditorPools == { {"editor1", "editor2"}, {"editor2", "failing"}, {"oauth"} }

EditorHeader == [e \in {"editor1", "editor2"} |->
                   IF e = "editor1" THEN "X-Editor-1" ELSE "X-Editor-2"]

HeaderNames == {"Accept", "Content-Type", "Authorization", "X-Editor-1", "X-Editor-2"}

\* editor(ctx, req) for the editors that do not use the token source: the
\* request after the call, and whether the editor failed
Edit(e, req) ==
    IF e = "failing" THEN [req |-> req, failed |-> TRUE]
    ELSE [req |-> [req EXCEPT !.headers[EditorHeader[e]] = <<"true">>], failed |-> FALSE]

\* the rest of the ClientCredentialsAuth editor once Token has returned
Bearer(ret, req) ==
    IF ret.err # "" THEN [req |-> req, failed |-> TRUE]
    ELSE [req |-> [req EXCEPT !.headers["Authorization"] = <<"Bearer ">> \o ret.token],
          failed |-> FALSE]

\* the response bodies of the model, and what json.Unmarshal into a
\* map[string]interface{} makes of each: whether it fails, and the entries of
\* the map with the kind of each value
B_empty == ""
B_error == "{\"error\": \"Bad Request\", \"detail\": \"Invalid input\"}"
B_message == "{\"message\": \"Internal Server Error\", \"code\": \"ISE001\"}"
B_both == "{\"error\": \"E\", \"message\": \"M\"}"
B_errorNumber == "{\"error\": 7, \"message\": \"M\"}"
B_detail == "{\"detail\": \"Invalid input\"}"
B_text == "Forbidden: Access denied"
B_array == "[\"Bad Request\"]"
B_null == "null"

Bodies == { B_empty, B_error, B_message, B_both, B_errorNumber, B_detail,
            B_text, B_array, B_null }

Str(v) == [kind |-> "string", value |-> v]
Num(v) == [kind |-> "number", value |-> v]
Absent == [kind |-> "absent", value |-> ""]

Entries(error, message) == [error |-> error, message |-> message]

Unmarshal(body) ==
    CASE body = B_error -> [failed |-> FALSE, data |-> Entries(Str("Bad Request"), Absent)]
      [] body = B_message ->
            [failed |-> FALSE, data |-> Entries(Absent, Str("Internal Server Error"))]
      [] body = B_both -> [failed |-> FALSE, data |-> Entries(Str("E"), Str("M"))]
      [] body = B_errorNumber -> [failed |-> FALSE, data |-> Entries(Num(7), Str("M"))]
      [] body = B_detail -> [failed |-> FALSE, data |-> Entries(Absent, Absent)]
      [] body = B_null -> [failed |-> FALSE, data |-> Entries(Absent, Absent)]
      [] OTHER -> [failed |-> TRUE, data |-> Entries(Absent, Absent)]

\* json.Valid: the body is a JSON text
IsJSON(body) == body \in Bodies \ { B_empty, B_text }

\* a message is a sequence of pieces, the digits of a number one by one
\* variant: the default message is kept whatever the body holds
parseError_DefaultOnly(resp) ==
    [StatusCode |-> resp.StatusCode,
     Message |-> <<"API error: ">> \o Decimal(resp.StatusCode)]

parseError(resp) ==
    LET default == <<"API error: ">> \o Decimal(resp.StatusCode)
        parsed == Unmarshal(resp.Body)
        message ==
            IF resp.Body = "" THEN default
            ELSE IF parsed.failed THEN <<resp.Body>>
            ELSE IF parsed.data.error.kind = "string" THEN <<parsed.data.error.value>>
            ELSE IF parsed.data.message.kind = "string" THEN <<parsed.data.message.value>>
            ELSE default
    IN [StatusCode |-> resp.StatusCode, Message |-> message]

\* what httpClient.Do and the read of the body come to: a transport error,
\* or a response whose body can or cannot be read to its end
Replies ==
    { [kind |-> "error", status |-> 0, body |-> "", readFails |-> FALSE] }
    \cup [kind : {"response"}, status : {200}, body : {B_empty, B_error},
          readFails : {FALSE}]
    \cup [kind : {"response"}, status : {399}, body : {B_empty}, readFails : {FALSE}]
    \cup [kind : {"response"}, status : {400}, body : Bodies, readFails : {FALSE}]
    \cup [kind : {"response"}, status : {404}, body : {B_empty, B_array},
          readFails : {FALSE}]
    \cup [kind : {"response"}, status : {200, 404}, body : {B_text}, readFails : {TRUE}]

Methods == {"GET", "bad method"}

\* http.NewRequestWithContext rejects a method that is not a token
ValidMethod(method) == method # "bad method"

MaxEditors == 2

\* the editors of a slice an application makes
MaxGiven == 1

RECURSIVE SeqsUpTo(_, _)
SeqsUpTo(S, n) ==
    IF n = 0 THEN { <<>> }
    ELSE LET shorter == SeqsUpTo(S, n - 1)
         IN shorter \cup { Append(q, x) : q \in shorter, x \in S }

\* cap(s) and the elements of a slice s. The model keeps the first
\* MaxEditors elements of an array: it follows AddRequestEditor up to
\* MaxEditors editors, so that no element behind them is read or written.
Cap(arrays, s) == IF s.arr = 0 THEN 0 ELSE Len(arrays[s.arr])

Elems(arrays, s) == IF s.len = 0 THEN <<>> ELSE SubSeq(arrays[s.arr], 1, s.len)

\* an array of cap elements that begins with elems; "nil" is an element
\* that was never written
Padded(elems, cap) ==
    [i \in 1..cap |-> IF i <= Len(elems) THEN elems[i] ELSE "nil"]

\* the slices of editors an application makes: the editors, and a capacity
\* of their number (a slice literal) or, to spare, of MaxEditors (make with
\* a capacity)
NewSlices(app) ==
    { sl \in [elems : SeqsUpTo(app.editors, MaxGiven), cap : 0..MaxEditors] :
        \/ sl.cap = Len(sl.elems)
        \/ app.spare /\ sl.cap = MaxEditors }

\* an array that no slice points into
Unused(used) ==
    CHOOSE a \in ArrayIds \ used : \A o \in ArrayIds \ used : a <= o

\* the arrays that c.requestEditors, the slice of the application and the
\* slice of the Request under way do not point into are given up; the
\* arrays in use are numbered in the order in which these three slices
\* reach them
Collected(b) ==
    LET c == b.requestEditors.arr
        h == b.held.arr
        l == b.flight.ranged.arr
        nc == IF c = 0 THEN 0 ELSE 1
        nh == IF h = 0 THEN 0 ELSE IF h = c THEN nc ELSE nc + 1
        nl == IF l = 0 THEN 0 ELSE IF l = c THEN nc ELSE IF l = h THEN nh
              ELSE Cardinality({ c, h } \ { 0 }) + 1
    IN [b EXCEPT !.arrays = [a \in ArrayIds |->
                                IF a = nc THEN b.arrays[c]
                                ELSE IF a = nh THEN b.arrays[h]
                                ELSE IF a = nl THEN b.arrays[l]
                                ELSE <<>>],
                 !.requestEditors.arr = nc,
                 !.held.arr = nh,
                 !.flight.ranged.arr = nl]

\* the application makes the slice sl, holds it and hands it to the client,
\* which stores the slice and makes no copy of its elements
Handed(b, sl) ==
    LET a == IF sl.cap = 0 THEN 0 ELSE Unused({ b.flight.ranged.arr })
        slice == [arr |-> a, len |-> Len(sl.elems)]
        arrays == IF a = 0 THEN b.arrays
                  ELSE [b.arrays EXCEPT ![a] = Padded(sl.elems, sl.cap)]
    IN [b EXCEPT !.arrays = arrays, !.held = slice, !.requestEditors = slice]

\* the capacity append gives the array it allocates for a slice that is
\* full: the runtime doubles the capacity of a short slice, and gives a
\* slice without array one element
GrowCap(cap) == IF cap = 0 THEN 1 ELSE 2 * cap

\* c.requestEditors = append(c.requestEditors, editor): with capacity left
\* the editor is written behind the elements of the slice into the array it
\* points into, whatever other slices point into it; else the elements and
\* the editor go to a new array. flight.overwritten notes a write that falls
\* into the slice the loop of the Request under way ranges over.
append(b, editor) ==
    LET s == b.requestEditors
        inPlace == s.len < Cap(b.arrays, s)
        a == IF inPlace THEN s.arr ELSE Unused({ b.held.arr, b.flight.ranged.arr })
        array == IF inPlace THEN [b.arrays[a] EXCEPT ![s.len + 1] = editor]
                 ELSE LET cap == GrowCap(Cap(b.arrays, s))
                      IN Padded(Append(Elems(b.arrays, s), editor),
                                IF cap < MaxEditors THEN cap ELSE MaxEditors)
    IN [b EXCEPT !.arrays[a] = array,
                 !.requestEditors = [arr |-> a, len |-> s.len + 1],
                 !.flight.overwritten =
                     @ \/ (inPlace /\ a = b.flight.ranged.arr
                                  /\ s.len < b.flight.ranged.len)]

ClientConfigs(app) ==
    [BaseURL : app.urls, APIKey : app.keys, HTTPClient : {"given", "bad proxy"},
     RequestEditors : NewSlices(app)]

\* NewBaseClient; the model follows one client at a time
NewBaseClient ==
    /\ ~bc.made
    /\ \E cfg \in ClientConfigs(bc.app) :
         LET baseURL == IF HasSuffix(cfg.BaseURL, <<"/">>) THEN cfg.BaseURL
                        ELSE cfg.BaseURL \o <<"/">>
             none == [NoClient EXCEPT !.app = bc.app]
             made == IF cfg.BaseURL = <<>>
                     THEN [none EXCEPT !.newErr = Err("base URL is required")]
                     ELSE IF cfg.HTTPClient = "bad proxy"
                     THEN [none EXCEPT !.newErr = Err("failed to create HTTP client")]
                     ELSE Handed([none EXCEPT !.made = TRUE,
                                              !.baseURL = baseURL,
                                              !.apiKey = cfg.APIKey],
                                 cfg.RequestEditors)
         IN bc' = [made EXCEPT !.givenEmpty = (cfg.BaseURL = <<>>)]
    /\ UNCHANGED <<config, specFile, spec, operations, respOrder, prevPass,
                   models, env, outDir, files, lastErr, cli, call, ts>>

\* SetBaseURL, AddRequestEditor and SetRequestEditors take no lock: a
\* request editor or the HTTP client that a Request calls, or another
\* goroutine, may call them while the Request is under way. The value the
\* latest Request returned is dropped when one is called after it.
\* variant: the base URL is stored as given
SetBaseURL_AsGiven ==
    /\ bc.made
    /\ \E baseURL \in bc.app.urls :
         bc' = [bc EXCEPT !.baseURL = baseURL, !.last = NoRequest]
    /\ UNCHANGED <<config, specFile, spec, operations, respOrder, prevPass,
                   models, env, outDir, files, lastErr, cli, call, ts>>

SetBaseURL ==
    /\ bc.made
    /\ \E baseURL \in bc.app.urls :
         bc' = [bc EXCEPT !.baseURL = IF HasSuffix(baseURL, <<"/">>) THEN baseURL
                                      ELSE baseURL \o <<"/">>,
                          !.last = NoRequest]
    /\ UNCHANGED <<config, specFile, spec, operations, respOrder, prevPass,
                   models, env, outDir, files, lastErr, cli, call, ts>>

AddRequestEditor ==
    /\ bc.made
    /\ bc.requestEditors.len < MaxEditors
    /\ \E editor \in bc.app.editors :
         bc' = Collected([append(bc, editor) EXCEPT !.last = NoRequest])
    /\ UNCHANGED <<config, specFile, spec, operations, respOrder, prevPass,
                   models, env, outDir, files, lastErr, cli, call, ts>>

\* SetRequestEditors with the slice the application holds, or with one it
\* makes for the call
SetRequestEditors ==
    /\ bc.made
    /\ \/ bc' = Collected([bc EXCEPT !.requestEditors = bc.held, !.last = NoRequest])
       \/ \E editors \in NewSlices(bc.app) :
            bc' = Collected([Handed(bc, editors) EXCEPT !.last = NoRequest])
    /\ UNCHANGED <<config, specFile, spec, operations, respOrder, prevPass,
                   models, env, outDir, files, lastErr, cli, call, ts>>

\* the headers Request sets before the editors run; a header value is a
\* sequence of pieces, empty for a header that is not set
DefaultHeaders(hasBody, contentType, apiKey) ==
    [h \in HeaderNames |->
        IF h = "Accept" THEN <<"application/json">>
        ELSE IF h = "Content-Type" /\ contentType # "" THEN <<contentType>>
        ELSE IF h = "Content-Type" /\ hasBody THEN <<"application/json">>
        ELSE IF h = "Authorization" /\ apiKey # "" THEN <<"Bearer ", apiKey>>
        ELSE <<>>]

\* Request is over: it returns
Returned(b, outcome) == Collected([b EXCEPT !.flight = NoFlight, !.last = outcome])

\* Request up to the loop over the request editors: the URL, the request,
\* the headers, and the value of c.requestEditors the loop ranges over: the
\* range expression is evaluated once, its elements are read from the array
\* round by round.
\* The base URL and the editors are read without a step of another
\* goroutine in between: a change of the editors in between gives what the
\* same change before the call gives, a change of the base URL what the same
\* change after the loop has begun gives.
Began(b, method, path, hasBody, contentType) ==
    LET built == buildURL(b.baseURL, path)
        req == [method |-> method, url |-> built.url,
                headers |-> DefaultHeaders(hasBody, contentType, b.apiKey)]
        ran == [NoRequest EXCEPT !.ran = TRUE]
    IN IF built.err # ""
       THEN Returned(b, [ran EXCEPT !.err = Err("failed to build URL")])
       ELSE IF ~ValidMethod(method)
       THEN Returned(b, [ran EXCEPT !.err = Err("failed to create request")])
       ELSE [b EXCEPT !.last = NoRequest,
                      !.flight = [stage |-> "editors", req |-> req,
                                  ranged |-> b.requestEditors, at |-> 0,
                                  calls |-> <<>>,
                                  registered |-> Elems(b.arrays, b.requestEditors),
                                  overwritten |-> FALSE]]

\* a call of Request without request options; one Request is under way at
\* a time
Request ==
    /\ bc.made
    /\ bc.flight.stage = ""
    /\ \E method \in Methods, path \in RequestPaths, hasBody \in BOOLEAN :
         bc' = Began(bc, method, path, hasBody, "")
    /\ UNCHANGED <<config, specFile, spec, operations, respOrder, prevPass,
                   models, env, outDir, files, lastErr, cli, call, ts>>

\* a call of RequestJSON: the body is nil, a value, or a value json.Marshal
\* rejects
RequestJSON ==
    /\ bc.made
    /\ bc.flight.stage = ""
    /\ \E method \in Methods, path \in {U_test},
          body \in {"nil", "value", "not marshalable"} :
         bc' = IF body = "not marshalable"
               THEN Returned(bc, [NoRequest EXCEPT !.ran = TRUE,
                                     !.err = Err("failed to marshal request body")])
               ELSE Began(bc, method, path, body # "nil", "application/json")
    /\ UNCHANGED <<config, specFile, spec, operations, respOrder, prevPass,
                   models, env, outDir, files, lastErr, cli, call, ts>>

\* the elements of the slice the loop ranges over that it has yet to read,
\* as the array holds them now, and the one the next round reads
Awaiting(b) ==
    IF b.flight.at < b.flight.ranged.len
    THEN SubSeq(b.arrays[b.flight.ranged.arr], b.flight.at + 1, b.flight.ranged.len)
    ELSE <<>>

CurrentEditor(b) == b.arrays[b.flight.ranged.arr][b.flight.at + 1]

\* variant: an editor error is passed over and the loop goes on
Edited_RunAll(b, e, r) ==
    [b EXCEPT !.flight.req = r.req,
              !.flight.calls = Append(@, e),
              !.flight.at = @ + 1]

\* one round of the loop over the editors is over: the editor failed and
\* Request returns, or the loop goes on with the request as the editor left it
Edited(b, e, r) ==
    IF r.failed
    THEN Returned(b, [NoRequest EXCEPT !.ran = TRUE,
                                       !.err = Err("request editor failed")])
    ELSE [b EXCEPT !.flight.req = r.req,
                   !.flight.calls = Append(@, e),
                   !.flight.at = @ + 1]

\* the loop reads the next element of the slice it ranges over and calls
\* it: an editor that does not use the token source
RequestEditor ==
    /\ bc.flight.stage = "editors"
    /\ bc.flight.at < bc.flight.ranged.len
    /\ CurrentEditor(bc) # "oauth"
    /\ bc' = Edited(bc, CurrentEditor(bc), Edit(CurrentEditor(bc), bc.flight.req))
    /\ UNCHANGED <<config, specFile, spec, operations, respOrder, prevPass,
                   models, env, outDir, files, lastErr, cli, call, ts>>

\* the goroutine that calls Request
Caller == "g1"

\* the loop calls the ClientCredentialsAuth editor, which calls Token; the
\* steps of Token follow
RequestToken ==
    /\ bc.flight.stage = "editors"
    /\ bc.flight.at < bc.flight.ranged.len
    /\ CurrentEditor(bc) = "oauth"
    /\ ts.pc[Caller] = "idle"
    /\ ts.requests < MaxRequests
    /\ ts.writer = {}
    /\ ts' = RLocked(ts, Caller)
    /\ bc' = [bc EXCEPT !.flight.stage = "token"]
    /\ UNCHANGED <<config, specFile, spec, operations, respOrder, prevPass,
                   models, env, outDir, files, lastErr, cli, call>>

\* Token has returned: the editor takes what it returned, and fails or sets
\* the Authorization header
RequestBearer ==
    /\ bc.flight.stage = "token"
    /\ ts.pc[Caller] = "idle"
    /\ bc' = Edited([bc EXCEPT !.flight.stage = "editors"], "oauth",
                    Bearer(ts.ret[Caller], bc.flight.req))
    /\ ts' = [ts EXCEPT !.ret[Caller] = NoReturn]
    /\ UNCHANGED <<config, specFile, spec, operations, respOrder, prevPass,
                   models, env, outDir, files, lastErr, cli, call>>

\* the loop is over: httpClient.Do sends the request as the editors left it
\* and waits for the response
RequestDo ==
    /\ bc.flight.stage = "editors"
    /\ bc.flight.at = bc.flight.ranged.len
    /\ bc' = [bc EXCEPT !.flight.stage = "sent"]
    /\ UNCHANGED <<config, specFile, spec, operations, respOrder, prevPass,
                   models, env, outDir, files, lastErr, cli, call, ts>>

\* what Request returns once httpClient.Do is over
Replied(b, reply) ==
    LET response == [StatusCode |-> reply.status, Body |-> reply.body]
        ran == [NoRequest EXCEPT !.ran = TRUE]
    IN Returned(b,
         IF reply.kind = "error"
         THEN [ran EXCEPT !.err = Err("request failed")]
         ELSE IF reply.readFails
         THEN [ran EXCEPT !.got = Some(response),
                          !.err = Err("failed to read response body")]
         ELSE IF reply.status >= 400
         THEN [ran EXCEPT !.got = Some(response), !.resp = Some(response),
                          !.err = [msg |-> "API error",
                                   api |-> Some(parseError(response))]]
         ELSE [ran EXCEPT !.got = Some(response), !.resp = Some(response)])

\* httpClient.Do returns, the body is read, Request returns
RequestReply ==
    /\ bc.flight.stage = "sent"
    /\ \E reply \in bc.app.replies : bc' = Replied(bc, reply)
    /\ UNCHANGED <<config, specFile, spec, operations, respOrder, prevPass,
                   models, env, outDir, files, lastErr, cli, call, ts>>

\* before NewBaseClient, for an application of apps
BeforeClient(apps) ==
    /\ bc \in { [NoClient EXCEPT !.app = app] : app \in apps }
    /\ ts = NewClientCredentialsTokenSource(0, TRUE)
    /\ call = NoCall
    /\ config = DefaultConfig
    /\ specFile = None
    /\ env = Healthy
    /\ spec = None
    /\ operations = None
    /\ respOrder = <<>>
    /\ prevPass = None
    /\ models = None
    /\ outDir = FALSE
    /\ files = [f \in FileNames |-> None]
    /\ lastErr = ""
    /\ cli = LibraryUse

\* an application that configures every base URL and API key of the model
\* and meets every reply; its one editor fails, and its slices of editors
\* have no capacity to spare
InitClient ==
    BeforeClient({ Application({"failing"}, FALSE, BaseURLs, {"", "key"}, Replies) })

NextClient ==
    \/ NewBaseClient
    \/ SetBaseURL
    \/ AddRequestEditor
    \/ SetRequestEditors
    \/ Request
    \/ RequestJSON
    \/ RequestEditor
    \/ RequestDo
    \/ RequestReply

SpecClient == InitClient /\ [][NextClient]_vars

\* the replies an application of InitEditors meets: a transport error and
\* a response
EditorReplies ==
    { reply \in Replies : reply.body = B_empty /\ reply.status \in {0, 200} }

\* the applications that register the editors of a pool; the slices of the
\* one whose second editor fails can have capacity to spare
InitEditors ==
    BeforeClient({ Application(pool, "failing" \in pool, { U_host }, {""}, EditorReplies) :
                     pool \in EditorPools })

NextEditors ==
    \/ NewBaseClient
    \/ SetBaseURL
    \/ AddRequestEditor
    \/ SetRequestEditors
    \/ Request
    \/ RequestJSON
    \/ RequestEditor
    \/ RequestToken
    \/ TokenCheck(Caller)
    \/ TokenLock(Caller)
    \/ TokenRecheck(Caller)
    \/ TokenRespond(Caller)
    \/ RequestBearer
    \/ RequestDo
    \/ RequestReply

SpecEditors == InitEditors /\ [][NextEditors]_vars

(***************************************************************************)
(* Properties                                                              *)
(***************************************************************************)
\* the operations returned by the latest extraction pass
Ops == IF operations = None THEN <<>> ELSE operations[1]

\* the operation of the document that ops[k] was built from
SourceOp(op) == PathItemOf(spec[1], op.Path).ops[op.Method]

\* the name an operation gets before any disambiguation
BaseName(op) == OperationName(op.Method, op.Path, SourceOp(op))

\* the class of a status code is its first character
CodeClass(code) == IF code = <<>> THEN "" ELSE code[1]

FilterSeq(seq, Keep(_)) ==
    LET F[i \in 0..Len(seq)] ==
          IF i = 0 THEN <<>>
          ELSE IF Keep(seq[i]) THEN Append(F[i-1], seq[i]) ELSE F[i-1]
    IN F[Len(seq)]

StatusCodes(resps) == [i \in DOMAIN resps |-> resps[i].StatusCode]

N_GetUsers == <<"G","e","t","U","s","e","r","s">>

\* C1: the names of the operations returned by extractOperations are
\* pairwise distinct.
C1_UniqueOperationNames ==
    \A i, j \in DOMAIN Ops : i # j => Ops[i].Name # Ops[j].Name

\* C2: every operation is named resolveUniqueName(candidate, takenNames), where
\* candidate is its base name and takenNames the names assigned before it in
\* the pass: the candidate itself when free, else candidate+N for the smallest
\* N >= 2 that is free, and never a member of takenNames.
C2_ResolveUniqueName ==
    \A k \in DOMAIN Ops :
        LET takenNames == { Ops[j].Name : j \in 1..(k - 1) }
        IN /\ Ops[k].Name = resolveUniqueName(BaseName(Ops[k]), takenNames)
           /\ Ops[k].Name \notin takenNames

\* an explicit identifier that Pascal-cases to a suffixed form: a name that
\* ends in a digit
HasSuffixedID(op) ==
    /\ op.OperationID # <<>>
    /\ LET name == toPascalCase(op.OperationID)
       IN name # <<>> /\ IsDigit(name[Len(name)])

\* C3: an operation whose explicit identifier Pascal-cases to a suffixed form
\* (get_users_2 -> GetUsers2) is named exactly that, and no other operation
\* of the output has that name.
C3_ExplicitSuffixedNameKept ==
    \A k \in DOMAIN Ops :
        HasSuffixedID(Ops[k]) =>
            /\ Ops[k].Name = toPascalCase(Ops[k].OperationID)
            /\ \A j \in DOMAIN Ops : j # k => Ops[j].Name # Ops[k].Name

\* C4: two extraction passes over the same loaded document, on the same
\* Generator or on a fresh one, return the same sequence of Operations.
C4_ExtractionDeterministic ==
    (operations # None /\ prevPass # None /\ prevPass[1].doc = spec[1]) =>
        Ops = prevPass[1].ops

\* the values a caller may pass for a path parameter
PathValues == { <<"a","1">>, <<"b","2">> }

\* the path with every {name} placeholder replaced by the value of `name`
RECURSIVE NamedSubst(_, _, _)
NamedSubst(path, names, val) ==
    IF names = <<>> THEN path
    ELSE NamedSubst(ReplaceAll(path, <<"{">> \o Head(names) \o <<"}">>, val[Head(names)]),
                    Tail(names), val)

\* C5: the path expression emitted for a client method puts the value of each
\* path parameter at the placeholder that bears the parameter's name, whatever
\* the order in which the parameters are declared.
C5_PathParamsByName ==
    files[OutputPath["client"]] # None =>
        \A k \in DOMAIN Ops :
            LET m == ClientMethod(Ops[k])
            IN \A val \in [Range(m.PathArgs) -> PathValues] :
                  Sprintf(m.PathFormat, [i \in DOMAIN m.PathArgs |-> val[m.PathArgs[i]]])
                    = NamedSubst(Ops[k].Path, m.PathArgs, val)

\* strings.Contains
Contains(s, sub) ==
    \E i \in 1..(Len(s) - Len(sub) + 1) : SubSeq(s, i, i + Len(sub) - 1) = sub

ContainsDate(fieldName) == Contains(ToLower(fieldName), <<"d","a","t","e">>)

\* the models returned by the latest extractModels call
Models == IF models = None THEN <<>> ELSE models[1]

\* the property schema a field was built from
SourceProperty(model, field) ==
    LET name == CHOOSE n \in DOMAIN spec[1].schemas : toPascalCase(n) = model.Name
    IN spec[1].schemas[name].value[1].properties[field.JSONName].value[1]

\* C6: an integer/int32 property whose name contains "date" in any letter case
\* is mapped to int64, an integer/int32 property with any other name to int32,
\* and an integer property of format int64 or of no format to int64.
C6_DateFieldsWidened ==
    \A i \in DOMAIN Models : \A j \in DOMAIN Models[i].Fields :
        LET field == Models[i].Fields[j]
            src == SourceProperty(Models[i], field)
        IN src.type = Some("integer") =>
              field.Type = IF src.format = "int32" /\ ~ContainsDate(field.JSONName)
                           THEN <<"int32">> ELSE <<"int64">>

\* the declared 2xx status codes of an extracted operation
SuccessCodes(op) == { c \in DOMAIN SourceOp(op).responses : CodeClass(c) = "2" }

\* the least status code of a non-empty set in string order
LeastCode(codes) == CHOOSE c \in codes : \A d \in codes \ {c} : StrLess(c, d)

\* C7: SuccessResponse is the declared 2xx response that comes first in the
\* key order of the status codes, on every extraction.
C7_FirstSuccessInKeyOrder ==
    \A k \in DOMAIN Ops :
        SuccessCodes(Ops[k]) # {} =>
            /\ Ops[k].SuccessResponse # None
            /\ Ops[k].SuccessResponse[1].StatusCode = LeastCode(SuccessCodes(Ops[k]))

\* C8: HasMultipleSuccessResponses is true exactly when the operation declares
\* more than one 2xx response, those without a content schema included, which
\* are recorded with an empty Type.
C8_MultipleSuccessFlag ==
    \A k \in DOMAIN Ops :
        /\ Ops[k].HasMultipleSuccessResponses <=> Cardinality(SuccessCodes(Ops[k])) > 1
        /\ \A c \in SuccessCodes(Ops[k]) :
              (SourceOp(Ops[k]).responses[c].json = None
               /\ SourceOp(Ops[k]).responses[c].wild = None)
              => Ops[k].Responses[c].Type = <<>>

C8_Witness ==
    \E k \in DOMAIN Ops :
        /\ Ops[k].HasMultipleSuccessResponses
        /\ SuccessCodes(Ops[k]) = {C200, C204}

IsErrorClass(code) == CodeClass(code) \in {"4", "5"}

\* C9: ErrorResponses holds exactly the declared 4xx and 5xx responses, each
\* once, in the order the loop met them; a response of any other class is
\* neither SuccessResponse nor in ErrorResponses, and SuccessResponse is never
\* an error response.
C9_ErrorResponsesPartition ==
    \A k \in DOMAIN Ops :
        LET op == Ops[k]
            errCodes == StatusCodes(op.ErrorResponses)
        IN /\ errCodes = FilterSeq(respOrder[k], IsErrorClass)
           /\ \A i \in DOMAIN errCodes : op.ErrorResponses[i] = op.Responses[errCodes[i]]
           /\ op.SuccessResponse # None =>
                 /\ CodeClass(op.SuccessResponse[1].StatusCode) = "2"
                 /\ ~InSeq(op.SuccessResponse[1].StatusCode, errCodes)
           /\ \A c \in DOMAIN SourceOp(op).responses :
                 CodeClass(c) \notin {"2", "4", "5"} =>
                    /\ ~InSeq(c, errCodes)
                    /\ op.SuccessResponse # None => op.SuccessResponse[1].StatusCode # c

C9_Witness ==
    \E k \in DOMAIN Ops :
        /\ StatusCodes(Ops[k].ErrorResponses) = <<C500, C400>>
        /\ respOrder[k] = <<C500, C400>>

\* a declared 4xx response that has no content schema and no body
BodilessClientErrors(op) ==
    { c \in DOMAIN SourceOp(op).responses :
        /\ CodeClass(c) = "4"
        /\ SourceOp(op).responses[c].json = None
        /\ SourceOp(op).responses[c].wild = None }

\* the number of (path, method) pairs the loaded document defines
DeclaredOperations ==
    Cardinality(UNION { { <<item.path, m>> : m \in DOMAIN item.ops \cap Range(MethodOrder) } :
                        item \in spec[1].paths })

\* C10 as stated: a declared 4xx response without content schema and body
\* (the 403 of createAsset) is in neither SuccessResponse nor ErrorResponses.
C10_BodilessErrorExcluded ==
    \A k \in DOMAIN Ops : \A c \in BodilessClientErrors(Ops[k]) :
        /\ ~InSeq(c, StatusCodes(Ops[k].ErrorResponses))
        /\ Ops[k].SuccessResponse # None => Ops[k].SuccessResponse[1].StatusCode # c

\* C10 (amended): a declared 4xx response without content schema and body is
\* never SuccessResponse, is a member of ErrorResponses with an empty Type, and
\* the extraction still returns every declared operation.
C10_BodilessErrorCollected ==
    operations # None =>
        /\ Len(Ops) = DeclaredOperations
        /\ \A k \in DOMAIN Ops : \A c \in BodilessClientErrors(Ops[k]) :
              /\ InSeq([StatusCode |-> c, Type |-> <<>>], Ops[k].ErrorResponses)
              /\ Ops[k].SuccessResponse # None => Ops[k].SuccessResponse[1].StatusCode # c

C10_Witness ==
    \E k \in DOMAIN Ops :
        /\ DOMAIN Ops[k].Responses = {C200, C403}
        /\ C403 \in BodilessClientErrors(Ops[k])

\* the schema a model was built from
SourceSchema(model) ==
    LET name == CHOOSE n \in DOMAIN spec[1].schemas : toPascalCase(n) = model.Name
    IN spec[1].schemas[name].value[1]

\* C11: every field of every extracted model has OmitEmpty = ~Required, and
\* Required is true exactly when the property's name is in the schema's
\* required list.
C11_OmitEmptyIsNotRequired ==
    \A i \in DOMAIN Models : \A j \in DOMAIN Models[i].Fields :
        LET field == Models[i].Fields[j]
        IN /\ field.OmitEmpty = ~field.Required
           /\ field.Required = InSeq(field.JSONName, SourceSchema(Models[i]).required)

C11_Witness ==
    \E i \in DOMAIN Models :
        /\ Models[i].Name = N_User
        /\ \E j, k \in DOMAIN Models[i].Fields :
              /\ Models[i].Fields[j].JSONName = W_id
              /\ ~Models[i].Fields[j].OmitEmpty
              /\ Models[i].Fields[k].JSONName = W_email
              /\ Models[i].Fields[k].OmitEmpty

\* C12: a model is an enum (IsEnum set, no Fields) or a record (IsEnum unset,
\* no EnumValues), never both; a schema with enumerated values yields an enum
\* without Fields even when it also declares object properties.
C12_EnumOrRecord ==
    \A i \in DOMAIN Models :
        LET model == Models[i]
        IN /\ ~(model.Fields # <<>> /\ model.EnumValues # <<>>)
           /\ model.IsEnum => model.Fields = <<>>
           /\ ~model.IsEnum => model.EnumValues = <<>>
           /\ model.IsEnum = (SourceSchema(model).enum # <<>>)

C12_Witness ==
    \E i \in DOMAIN Models :
        /\ Models[i].IsEnum
        /\ Models[i].EnumValues # <<>>
        /\ Models[i].Fields = <<>>
        /\ SourceSchema(Models[i]).type = Some("object")
        /\ DOMAIN SourceSchema(Models[i]).properties # {}

\* the order in which the documents of the model list their paths in the
\* file (the order of TestUniqueOperationNames for its paths)
FileOrder == <<P_users, P_v1users, P_v2users, P_apiusers, P_special,
               P_userById, P_links, P_assets, P_root, P_userPosts, P_events>>

IsPathOf(doc, path) == \E item \in doc.paths : item.path = path

\* the paths of a document in the order its file lists them
DocumentOrder(doc) ==
    LET F[i \in 0..Len(FileOrder)] ==
          IF i = 0 THEN <<>>
          ELSE IF IsPathOf(doc, FileOrder[i]) THEN Append(F[i-1], FileOrder[i])
               ELSE F[i-1]
    IN F[Len(FileOrder)]

\* the (path, method) pairs of the paths, each path's methods in MethodOrder
RECURSIVE PairsInOrder(_, _)
PairsInOrder(doc, paths) ==
    IF paths = <<>> THEN <<>>
    ELSE LET methods == DefinedMethods(PathItemOf(doc, Head(paths)), MethodOrder)
         IN [k \in 1..Len(methods) |-> <<Head(paths), methods[k]>>]
            \o PairsInOrder(doc, Tail(paths))

\* C13: extractOperations returns one operation per defined (path, method)
\* pair, the paths in document order and the methods of one path in the order
\* GET, POST, PUT, DELETE, PATCH, HEAD, OPTIONS.
C13_OnePerPairInDocumentOrder ==
    operations # None =>
        [k \in DOMAIN Ops |-> <<Ops[k].Path, Ops[k].Method>>]
            = PairsInOrder(spec[1], DocumentOrder(spec[1]))

\* the non-empty segments of a path
Segments(path) == FilterSeq(Split(path, "/"), LAMBDA seg : seg # <<>>)

IsParamSegment(seg) == seg[1] = "{" /\ seg[Len(seg)] = "}"

\* the Pascal-cased method followed by the Pascal-cased non-parameter segments
SynthesizedName(method, path) ==
    LET kept == FilterSeq(Segments(path), LAMBDA seg : ~IsParamSegment(seg))
        Cat[i \in 0..Len(kept)] ==
          IF i = 0 THEN toPascalCase(MethodName[method])
          ELSE Cat[i-1] \o toPascalCase(kept[i])
    IN Cat[Len(kept)]

N_GetUsersPosts == <<"G","e","t","U","s","e","r","s","P","o","s","t","s">>
N_Get == <<"G","e","t">>

\* C14: an operation without an explicit identifier is named by the
\* Pascal-cased method followed by the Pascal-cased non-parameter path
\* segments in path order (GET /users/{id}/posts -> GetUsersPosts,
\* GET /users/{id} -> GetUsers, GET / -> Get); an operation with an explicit
\* identifier is named by the Pascal-cased identifier.
C14_BaseNameFromMethodAndSegments ==
    \A k \in DOMAIN Ops :
        LET op == Ops[k]
        IN /\ op.OperationID # <<>> => op.Name = toPascalCase(op.OperationID)
           /\ op.OperationID = <<>> =>
                /\ op.Name = SynthesizedName(op.Method, op.Path)
                /\ (op.Method = "GET" /\ op.Path = P_userPosts) => op.Name = N_GetUsersPosts
                /\ (op.Method = "GET" /\ op.Path = P_userById) => op.Name = N_GetUsers
                /\ (op.Method = "GET" /\ op.Path = P_root) => op.Name = N_Get

C14_Witness ==
    \E k \in DOMAIN Ops :
        /\ Ops[k].OperationID = <<>>
        /\ Ops[k].Path = P_userPosts
        /\ Ops[k].Name = N_GetUsersPosts

FormatError == [models |-> "failed to generate models: failed to format generated code",
                client |-> "failed to generate client: failed to format generated code"]

\* C15: when the formatting of an artifact failed and the file system works,
\* the unformatted text is at <outputPath>.unformatted, whatever the run
\* configuration.
C15_UnformattedAlwaysWritten ==
    \A a \in Artifacts :
        (lastErr = FormatError[a] /\ a \notin env.writeFails) =>
            files[UnformattedPath[a]] # None

FailsIn(a) == a \in env.renderFails \cup env.formatFails \cup env.writeFails

Toggle == [models |-> config.GenerateModels, client |-> config.GenerateClient]

\* the first artifact of a Generate call that fails, "none" when none does
FirstFailure ==
    IF Toggle["models"] /\ FailsIn("models") THEN "models"
    ELSE IF Toggle["client"] /\ FailsIn("client") THEN "client"
    ELSE "none"

ArtifactErrors(a) ==
    { GenerateError(a, e) : e \in {"failed to execute template",
                                   "failed to format generated code",
                                   "failed to write file"} }

\* the state a Generate call that got past the output directory leaves
GenerateOutcome ==
    /\ FirstFailure = "models" => lastErr \in ArtifactErrors("models")
    /\ FirstFailure = "client" =>
          /\ lastErr \in ArtifactErrors("client")
          /\ Toggle["models"] => files[OutputPath["models"]] # None
    /\ FirstFailure = "none" =>
          /\ lastErr = ""
          /\ \A a \in Artifacts : Toggle[a] => files[OutputPath[a]] # None
    /\ \A a \in Artifacts :
          ~Toggle[a] => files[OutputPath[a]] = None /\ files[UnformattedPath[a]] = None

\* C16: a Generate call in which an artifact fails returns an error naming
\* that artifact, leaves a sibling artifact written earlier in the same call
\* in place, and produces an artifact only when its toggle is set.
C16_ArtifactFailureIdentified ==
    [][(Generate /\ spec # None /\ ~env.mkdirFails) => GenerateOutcome']_vars

C16_Witness ==
    /\ lastErr \in ArtifactErrors("client")
    /\ files[OutputPath["models"]] # None
    /\ files[OutputPath["client"]] = None

\* main has finished a Generate call without error
Generated == cli.stage = "configured" /\ outDir /\ lastErr = ""

\* C17: with -models-only and no other generation flag the generator is
\* configured for, and writes, the models artifact only; symmetrically for
\* -client-only; both flags together are rejected before any generation.
C17_OnlyFlagSelectsOneArtifact ==
    LET f == cli.flags
    IN /\ (cli.stage = "configured" /\ f.all /\ f.modelsOnly /\ ~f.clientOnly) =>
             /\ config.GenerateModels /\ ~config.GenerateClient
             /\ files[OutputPath["client"]] = None
       /\ (cli.stage = "configured" /\ f.all /\ f.clientOnly /\ ~f.modelsOnly) =>
             /\ config.GenerateClient /\ ~config.GenerateModels
             /\ files[OutputPath["models"]] = None
       /\ (f.modelsOnly /\ f.clientOnly) =>
             /\ cli.stage # "configured"
             /\ ~outDir
             /\ \A name \in FileNames : files[name] = None

W_cities == <<"c","i","t","i","e","s">>

\* C18: singularizing and then pluralizing a regular plural gives it back,
\* and on the words of the irregular table, as they are or capitalized,
\* pluralize and singularize are inverse of each other.
C18_PluralSingularRoundTrip ==
    /\ (call.fns = <<"singularize", "pluralize">>
          /\ call.arg \in RegularPlurals \cup IrregularPlurals) => call.out = Ok(call.arg)
    /\ (call.fns = <<"pluralize", "singularize">>
          /\ call.arg \in IrregularSingulars) => call.out = Ok(call.arg)
    /\ (call.fns = <<"pluralize">> /\ call.arg \in IrregularSingulars) =>
          call.out.ok /\ call.out.value \in IrregularPlurals
    /\ (call.fns = <<"singularize">> /\ call.arg \in IrregularPlurals) =>
          call.out.value \in IrregularSingulars

C18_Witness ==
    /\ call.fns = <<"singularize", "pluralize">>
    /\ call.arg = W_cities
    /\ call.out = Ok(W_cities)

\* C19: every call of a naming helper returns a string: none fails with an
\* index out of range, whatever the input.
C19_NamingHelpersTotal == call.out.ok

\* non-empty tokens of lower-case letters and digits joined by single `sep`
IsJoinedTokens(s, sep) ==
    /\ s # <<>>
    /\ \A i \in DOMAIN s : IsLower(s[i]) \/ IsDigit(s[i]) \/ s[i] = sep
    /\ s[1] # sep /\ s[Len(s)] # sep
    /\ \A i \in 1..(Len(s) - 1) : ~(s[i] = sep /\ s[i+1] = sep)

\* C20: toSnakeCase(toPascalCase(s)) = s for every snake_case identifier s,
\* and toKebabCase(toPascalCase(k)) = k for every kebab-case identifier k.
C20_SnakeKebabRoundTrip ==
    /\ (call.fns = <<"toPascalCase", "toSnakeCase">> /\ IsJoinedTokens(call.arg, "_"))
          => call.out = Ok(call.arg)
    /\ (call.fns = <<"toPascalCase", "toKebabCase">> /\ IsJoinedTokens(call.arg, "-"))
          => call.out = Ok(call.arg)

\* an identifier: letters, digits and underscores, not starting with a digit
IsIdentifier(s) ==
    /\ s # <<>>
    /\ \A i \in DOMAIN s : IsLetter(s[i]) \/ IsDigit(s[i]) \/ s[i] = "_"
    /\ ~IsDigit(s[1])

\* C21: for every valid identifier s, toCamelCase(toPascalCase(s)) is a fixed
\* point of the same map: applying toPascalCase and toCamelCase to it again
\* gives it back.
C21_CamelOfPascalIdempotent ==
    (call.fns = <<"toPascalCase", "toCamelCase">> /\ IsIdentifier(call.arg)) =>
        /\ call.out.ok
        /\ toCamelCase(toPascalCase(call.out.value)) = call.out.value

C21_Witness ==
    /\ call.fns = <<"toPascalCase", "toCamelCase">>
    /\ call.arg = <<"A","P","I","_","k","e","y">>
    /\ call.out = Ok(<<"a","p","i","K","e","y">>)

\* the type an additional-properties schema stands for: the Pascal-cased
\* name of the schema it refers to, else the mapping of the inline schema
ValueType(schemaRef) ==
    IF schemaRef.ref # <<>> THEN toPascalCase(LastPart(schemaRef.ref))
    ELSE schemaToGoType(schemaRef.value)

\* C22: an object property with an additional-properties schema S is typed
\* map[string]T, T being the mapping of S and the Pascal-cased name of X when
\* S refers to the named schema X; with the flag but no schema it is typed
\* map[string]interface{}; with neither, interface{}.
C22_AdditionalPropertiesMapping ==
    \A i \in DOMAIN Models : \A j \in DOMAIN Models[i].Fields :
        LET field == Models[i].Fields[j]
            src == SourceProperty(Models[i], field)
        IN src.type = Some("object") =>
              field.Type =
                 IF src.addl # None THEN <<"map[string]">> \o ValueType(src.addl[1])
                 ELSE IF src.addlHas = Some(TRUE) THEN <<"map[string]", "interface{}">>
                 ELSE <<"interface{}">>

\* the operations have a parameter, request body or response type that
\* mentions time.Time
UsesTime(ops) ==
    \E k \in DOMAIN ops :
       \/ \E p \in DOMAIN ops[k].Parameters : MentionsTime(ops[k].Parameters[p].Type)
       \/ ops[k].RequestBody # None /\ MentionsTime(ops[k].RequestBody[1].Type)
       \/ \E c \in DOMAIN ops[k].Responses : MentionsTime(ops[k].Responses[c].Type)

\* C23: the imports of the generated client always hold context, fmt and the
\* client import path (the configured one, else the default), and hold "time"
\* exactly when an operation has a parameter, request body or response type
\* that mentions time.Time.
C23_ClientImports ==
    (files[OutputPath["client"]] # None /\ operations # None) =>
        LET imports == files[OutputPath["client"]][1].imports
        IN /\ {"context", "fmt"} \subseteq imports
           /\ (IF config.ClientImport = "" THEN DefaultClientImport
               ELSE config.ClientImport) \in imports
           /\ ("time" \in imports) = UsesTime(Ops)

\* the call of an editor that the loop of Request is about to return from
\* ends with an error
EditorFails ==
    \/ (RequestEditor /\ Edit(CurrentEditor(bc), bc.flight.req).failed)
    \/ (RequestBearer /\ ts.ret[Caller].err # "")

\* the editors that are registered: the elements of c.requestEditors
Registered(b) == Elems(b.arrays, b.requestEditors)

\* the steps of registration and of the loop that C24 is about:
\* AddRequestEditor puts an editor behind those registered; a Request begins
\* its loop with no editor called; the call of an editor that fails ends
\* the Request with the error "request editor failed" and without a
\* response; a call that does not fail is followed by the next round; the
\* request goes out only when the loop is over, as the editors left it
EditorSteps ==
    /\ AddRequestEditor =>
          /\ Len(Registered(bc')) = Len(Registered(bc)) + 1
          /\ SubSeq(Registered(bc'), 1, Len(Registered(bc))) = Registered(bc)
    /\ ((Request \/ RequestJSON) /\ bc'.flight.stage # "") =>
          /\ bc'.flight.registered = Registered(bc)
          /\ bc'.flight.calls = <<>>
    /\ ((RequestEditor \/ RequestBearer) /\ EditorFails) =>
          /\ bc'.flight = NoFlight
          /\ bc'.last.err = Err("request editor failed")
          /\ bc'.last.resp = None
    /\ ((RequestEditor \/ RequestBearer) /\ ~EditorFails) =>
          /\ bc'.flight.stage = "editors"
          /\ bc'.flight.calls = Append(bc.flight.calls, CurrentEditor(bc))
          /\ bc'.flight.registered = bc.flight.registered
    /\ (bc.flight.stage # "sent" /\ bc'.flight.stage = "sent") =>
          /\ RequestDo
          /\ Awaiting(bc) = <<>>
          /\ bc'.flight.req = bc.flight.req

\* the loop of the Request under way has called, and has yet to call, the
\* editors that were registered when it began, in the order registered; the
\* request is out only when it has called them all
LoopAsRegistered ==
    /\ bc.flight.calls \o Awaiting(bc) = bc.flight.registered
    /\ bc.flight.stage = "sent" => bc.flight.calls = bc.flight.registered

\* two editors were called in the order registered and the request went out
\* with the headers of both
C24_BothEditorsRan ==
    /\ bc.flight.stage = "sent"
    /\ ~bc.flight.overwritten
    /\ bc.flight.calls = <<"editor2", "editor1">>
    /\ bc.flight.req.headers["X-Editor-1"] = <<"true">>
    /\ bc.flight.req.headers["X-Editor-2"] = <<"true">>

\* the editor that fails was registered when the loop began; an
\* AddRequestEditor called during the Request has put editor2 in its place
\* in the array, the loop has called editor2 twice and the request is out
C24_OverwrittenEditorRan ==
    /\ bc.flight.stage = "sent"
    /\ bc.flight.registered = <<"editor2", "failing">>
    /\ bc.flight.calls = <<"editor2", "editor2">>

\* the message the statement gives an APIError for a response: the "error"
\* field, else the "message" field, else the raw body when it is not JSON,
\* else the default
StatedMessage(response) ==
    LET parsed == Unmarshal(response.Body)
    IN IF ~parsed.failed /\ parsed.data.error.kind = "string"
       THEN <<parsed.data.error.value>>
       ELSE IF ~parsed.failed /\ parsed.data.message.kind = "string"
       THEN <<parsed.data.message.value>>
       ELSE IF response.Body # "" /\ ~IsJSON(response.Body) THEN <<response.Body>>
       ELSE <<"API error: ">> \o Decimal(response.StatusCode)

\* C26, as stated: the error is nil exactly when a response was received with
\* a status below 400; for a status of 400 or above Request returns the
\* Response and an APIError with that status whose message is the "error"
\* field, else the "message" field, else the raw non-JSON body, else
\* "API error: <status>".
C26_NilErrorIffStatusBelow400 ==
    bc.last.ran =>
      /\ (bc.last.err = NoErr) <=>
            (bc.last.got # None /\ bc.last.got[1].StatusCode < 400)
      /\ (bc.last.got # None /\ bc.last.got[1].StatusCode >= 400) =>
            /\ bc.last.resp = bc.last.got
            /\ bc.last.err.api # None
            /\ bc.last.err.api[1].StatusCode = bc.last.got[1].StatusCode
            /\ bc.last.err.api[1].Message = StatedMessage(bc.last.got[1])

\* the body of the response was read to its end
BodyRead == bc.last.got # None /\ bc.last.err.msg # "failed to read response body"

\* the body is a JSON object or the JSON null
IsObjectOrNull(body) ==
    body \in { B_error, B_message, B_both, B_errorNumber, B_detail, B_null }

\* the message for a body: a body that is not a JSON object (or null) is
\* the message as it is, whether or not it is JSON
AmendedMessage(response) ==
    LET parsed == Unmarshal(response.Body)
    IN IF ~parsed.failed /\ parsed.data.error.kind = "string"
       THEN <<parsed.data.error.value>>
       ELSE IF ~parsed.failed /\ parsed.data.message.kind = "string"
       THEN <<parsed.data.message.value>>
       ELSE IF response.Body # "" /\ ~IsObjectOrNull(response.Body)
       THEN <<response.Body>>
       ELSE <<"API error: ">> \o Decimal(response.StatusCode)

\* C26, amended: the error is nil exactly when a response was received, its
\* body was read to the end and its status is below 400; for a status of 400
\* or above whose body was read, Request returns the Response and an APIError
\* with that status whose message is the string "error" field, else the
\* string "message" field, else the raw body when it is not empty and not a
\* JSON object or null, else "API error: <status>".
C26_NilErrorIffReadAndBelow400 ==
    bc.last.ran =>
      /\ (bc.last.err = NoErr) <=> (BodyRead /\ bc.last.got[1].StatusCode < 400)
      /\ (BodyRead /\ bc.last.got[1].StatusCode >= 400) =>
            /\ bc.last.resp = bc.last.got
            /\ bc.last.err.api # None
            /\ bc.last.err.api[1].StatusCode = bc.last.got[1].StatusCode
            /\ bc.last.err.api[1].Message = AmendedMessage(bc.last.got[1])

\* a 404 whose body is a JSON array: the body is the message
C26_Witness ==
    /\ bc.last.ran
    /\ bc.last.resp = Some([StatusCode |-> 404, Body |-> B_array])
    /\ bc.last.err.api # None
    /\ bc.last.err.api[1].Message = <<B_array>>

\* C27: the base URL of a client ends with "/" after NewBaseClient and after
\* every SetBaseURL; NewBaseClient with an empty base URL returns an error
\* and no client.
C27_BaseURLEndsWithSlash ==
    /\ bc.made => HasSuffix(bc.baseURL, <<"/">>)
    /\ bc.givenEmpty => (~bc.made /\ bc.newErr.msg = "base URL is required")

\* the client was given a base URL without the final "/"
C27_Witness == bc.made /\ bc.baseURL = U_hostV1 \o <<"/">>

\* the error of a nil token
Failed(reply) == requestToken(reply).err # ""

\* C25: while a token is cached and the time is before its expiry, Token
\* returns the cached access token and sends no token request; once the
\* expiry has passed, the next call that looks at the cache sends one token
\* request, and the token it is answered with replaces the cached token and
\* the expiry.
C25_CachedUntilExpiry ==
    [][\A g \in Goroutines :
         LET cached == ts.token # None /\ ts.now < ts.tokenExpiry
             expired == ts.token # None /\ ts.now >= ts.tokenExpiry
             returned == ts'.ret[g].token = ts.token[1].AccessToken
                         /\ ts'.ret[g].err = ""
                         /\ ts'.pc[g] = "idle"
                         /\ ts'.requests = ts.requests
                         /\ ts'.token = ts.token
                         /\ ts'.tokenExpiry = ts.tokenExpiry
         IN /\ (TokenCheck(g) /\ cached) => returned
            /\ (TokenRecheck(g) /\ cached) => returned
            /\ (TokenCheck(g) /\ expired) =>
                  (ts'.pc[g] = "unlocked" /\ ts'.requests = ts.requests)
            /\ (TokenRecheck(g) /\ expired) =>
                  (ts'.pc[g] = "requesting" /\ ts'.requests = ts.requests + 1)
            /\ \A reply \in TokenReplies(ts.requests) :
                  (ts.pc[g] = "requesting" /\ ~Failed(reply)
                   /\ ts' = Responded(ts, g, reply)) =>
                     /\ ts'.token = Some([AccessToken |-> reply.AccessToken,
                                          ExpiresIn |-> reply.ExpiresIn])
                     /\ ts'.tokenExpiry = ts.now + reply.ExpiresIn - ts.delta
                     /\ ts'.ret[g].token = reply.AccessToken
                     /\ ts'.requests = ts.requests
                     /\ ts'.pc[g] = "idle"]_vars

\* g2 was handed the cached first token; after its expiry g1 asked for the
\* second token, which is the cached one now
C25_Witness ==
    /\ ts.made
    /\ ts.requests = 2
    /\ ts.ret["g2"].path = "read lock" /\ ts.ret["g2"].token = AccessToken(1)
    /\ ts.ret["g1"].path = "request" /\ ts.ret["g1"].token = AccessToken(2)
    /\ ts.token # None /\ ts.token[1].AccessToken = AccessToken(2)

\* C28: Generate writes artifacts only after a LoadSpec of the same Generator
\* has succeeded: with no specification loaded, never loaded or after a
\* LoadSpec that failed to load or to validate the file, Generate returns an
\* error, creates no output directory and writes no file; a LoadSpec that
\* fails leaves the specification unset.
C28_GenerateNeedsLoadedSpec ==
    [][/\ (spec = None /\ Generate) =>
             /\ lastErr' = "specification not loaded"
             /\ outDir' = outDir
             /\ files' = files
       /\ (spec = None /\ (outDir' # outDir \/ files' # files)) => ~Generate
       /\ ((specFile = None \/ ~Validates(specFile[1])) /\ LoadSpec) =>
             /\ lastErr' \in {"failed to load OpenAPI spec", "invalid OpenAPI spec"}
             /\ spec' = None]_vars

\* C28 as amended: Generate writes only on a Generator that holds a
\* specification, and a Generator comes to hold one only by a LoadSpec that
\* succeeds; with none held, Generate returns an error, creates no output
\* directory and writes no file; a LoadSpec that fails to load or to validate
\* the file returns its error and leaves the specification as it was, unset
\* when no LoadSpec had succeeded and the document loaded before otherwise.
C28_FailedLoadSpecKeepsSpec ==
    [][/\ (spec = None /\ Generate) =>
             /\ lastErr' = "specification not loaded"
             /\ outDir' = outDir
             /\ files' = files
       /\ (spec = None /\ (outDir' # outDir \/ files' # files)) => ~Generate
       /\ (spec = None /\ spec' # None) =>
             /\ LoadSpec
             /\ lastErr' = ""
             /\ specFile # None /\ Validates(specFile[1])
             /\ spec' = specFile
       /\ ((specFile = None \/ ~Validates(specFile[1])) /\ LoadSpec) =>
             /\ lastErr' = IF specFile = None THEN "failed to load OpenAPI spec"
                           ELSE "invalid OpenAPI spec"
             /\ spec' = spec]_vars

\* a LoadSpec failed on a Generator that had loaded a document before, and
\* the Generator still holds the document
C28_Witness ==
    /\ lastErr = "failed to load OpenAPI spec"
    /\ specFile = None
    /\ spec # None

\* C29: goroutines call Token together while no unexpired token is cached,
\* the clock does not move while they run, and the endpoint answers every
\* request with a token whose expires_in exceeds ExpiryDelta: one token
\* request is sent and every caller returns the token it was answered with.
\* The cache is looked at and written only by a goroutine that holds the
\* mutex, and the write lock excludes every other holder.
C29_OneRequestForConcurrentCallers ==
    ts.made =>
      /\ (ts.urlOK /\ ts.clean /\ ts.now = 0) =>
            /\ ts.requests <= 1
            /\ \A g \in Goroutines :
                  ts.ret[g].path # "" =>
                     /\ ts.requests = 1
                     /\ ts.ret[g].err = ""
                     /\ ts.ret[g].token = AccessToken(1)
      /\ \A g \in Goroutines :
            /\ ts.ret[g].held
            /\ ts.pc[g] = "rlocked" <=> g \in ts.readers
            /\ ts.pc[g] \in {"locked", "requesting"} <=> g \in ts.writer
      /\ Cardinality(ts.writer) <= 1
      /\ ts.writer # {} => ts.readers = {}

\* both goroutines found the cache empty under the read lock; g1 asked for
\* the token and g2 found it at its second check
C29_Witness ==
    /\ ts.made /\ ts.urlOK /\ ts.clean /\ ts.now = 0
    /\ ts.requests = 1
    /\ ts.ret["g1"].path = "request"
    /\ ts.ret["g2"].path = "write lock"
    /\ ts.ret["g2"].token = ts.ret["g1"].token

\* C30: when the token request fails (no answer, a status other than 200, a
\* body that does not decode), Token returns the error, leaves the cached
\* token and expiry as they were and releases the lock; the cache is then
\* still without an unexpired token, and a call that finds it so sends a new
\* token request.
C30_FailedRequestLeavesCache ==
    [][\A g \in Goroutines :
         /\ \A reply \in TokenReplies(ts.requests) :
               (ts.pc[g] = "requesting" /\ Failed(reply)
                /\ ts' = Responded(ts, g, reply)) =>
                  /\ ts'.ret[g].err = requestToken(reply).err
                  /\ ts'.ret[g].token = <<>>
                  /\ ts'.token = ts.token
                  /\ ts'.tokenExpiry = ts.tokenExpiry
                  /\ ts'.writer = {} /\ g \notin ts'.readers
                  /\ ts'.pc[g] = "idle"
                  /\ ~(ts'.token # None /\ ts'.now < ts'.tokenExpiry)
         /\ (TokenRecheck(g) /\ ts.urlOK
             /\ ~(ts.token # None /\ ts.now < ts.tokenExpiry)) =>
               (ts'.pc[g] = "requesting" /\ ts'.requests = ts.requests + 1)]_vars

\* the request of g1 was answered with status 401; the later call of g2 sent
\* the second request
C30_Witness ==
    /\ ts.made
    /\ ts.ret["g1"].err = "token request failed with status 401"
    /\ ts.requests = 2
    /\ ts.ret["g2"].path = "request" /\ ts.ret["g2"].token = AccessToken(2)

====
